---------------------------- MODULE Spec2Model ----------------------------
(***************************************************************************)
(* A model of rudis: the storage map with lazy expiration (Database over   *)
(* two DashMaps, reached directly or through the command handlers that     *)
(* lock the Context's RwLock), the argument parser, the derived commands'  *)
(* generated TryFrom<Parser>, and the wire-protocol framer.                *)
(***************************************************************************)
EXTENDS Integers, Sequences, FiniteSets, TLC

(***************************************************************************)
(* Bounds of the model.                                                    *)
(***************************************************************************)
\* The clock (tokio::time::Instant::now()) runs over 0..MaxTime.
MaxTime == 1
\* A ttl handed to Database::set is Some(d) with d in 0..MaxTtl, or None.
MaxTtl == 1

\* Connections / callers of the Database.
Procs == {"c1", "c2"}
\* The single caller of the sequential specification.
SeqProc == "c1"
Keys == {"a", "b"}
\* Stored objects (opaque here; their encoding is modelled separately).
Vals == {"v1", "v2"}
\* Shards of a DashMap; the hash of a key picks one.
Shards == {1, 2}

\* Option<T>: None is the empty sequence, Some(x) the sequence <<x>>.
None == <<>>
Some(x) == <<x>>
IsSome(o) == Len(o) = 1
Unwrap(o) == o[1]

VARIABLES
    data,       \* Database.data: key -> object (a DashMap)
    expires,    \* Database.expires: key -> instant (a DashMap)
    now,        \* the clock
    shardOf,    \* the shard the hasher gives each key (fixed by the build)
    guards,     \* callers holding a dashmap Ref (shard read lock) into expires
    lockW,      \* holders of Context.db's RwLock write guard (at most one)
    lockR,      \* holders of Context.db's RwLock read guard
    procs,      \* each caller's position and locals
    request,    \* the request frame handed to Parser::new
    parser,     \* the Parser built from it (None before Parser::new)
    reply,      \* what the last parser operation returned
    frame,      \* a frame to serialize
    wire,       \* the bytes written / to be parsed
    parsed,     \* what parse returned for them
    reader,     \* the bytes parse left in the reader
    registry,   \* COMMAND_REGISTRY: upper-cased name -> handler
    pending,    \* PENDING_REGISTRATIONS: the queue of (name, handler) pairs
    regWriter,  \* the holder of COMMAND_REGISTRY's write guard (None or Some)
    regReaders, \* the holders of COMMAND_REGISTRY's read guard
    drainers,   \* each do_register call's position and locals
    looker,     \* a registry lookup's position and locals
    history,    \* every pair handed to en_register_queue so far, in call order
    storage,    \* main.rs Storage: key -> ValueEntry (a HashMap under one RwLock)
    socket,     \* each connection of the listener: its state and traffic
    call,       \* a call of a function on objects, with its arguments
    out,        \* what that call returned (None before it ran)
    config      \* CONFIG: the server configuration, fixed once initialised

dbVars == <<data, expires, now, shardOf, guards, lockW, lockR, procs>>
parserVars == <<request, parser, reply>>
wireVars == <<frame, wire, parsed, reader>>
regVars == <<registry, pending, regWriter, regReaders, drainers, looker, history>>
connVars == <<storage, socket>>
objVars == <<call, out>>
cfgVars == <<config>>
vars == <<dbVars, parserVars, wireVars, regVars, connVars, objVars, cfgVars>>

(***************************************************************************)
(* DashMap operations on a map held as a function over its present keys.   *)
(***************************************************************************)
\* An insert that keeps no other key of the map.
MapInsertAlone(m, k, v) == [x \in {k} |-> v]

MapInsert(m, k, v) == [x \in (DOMAIN m) \cup {k} |-> IF x = k THEN v ELSE m[x]]
\* A remove that empties the map.
MapRemoveAll(m, k) == <<>>

MapRemove(m, k) == [x \in (DOMAIN m) \ {k} |-> m[x]]
MapGet(m, k) == IF k \in DOMAIN m THEN Some(m[k]) ELSE None

\* A write to a shard of expires (insert, remove) takes the shard's exclusive
\* lock: it waits while any Ref into that shard is alive, the writer's own
\* included.
ExpiresWritable(k) == \A q \in guards : shardOf[procs[q].key] # shardOf[k]

\* The projection handed to get_with.
Project(v) == IF v = "v1" THEN "f(v1)" ELSE "f(v2)"

Idle == [pc |-> "idle", cmd |-> "none", op |-> "none", key |-> "a",
         val |-> "v1", ttl |-> None, tnow |-> 0, res |-> None,
         arg |-> <<>>, args |-> <<>>, old |-> None, seen |-> None,
         reply |-> None]

Upd(p, r) == procs' = [procs EXCEPT ![p] = r]

(***************************************************************************)
(* Entry points.                                                           *)
(***************************************************************************)
\* A direct call of Database::get / get_with / set.
ApiCall(p) ==
    /\ procs[p].pc = "idle"
    /\ \E k \in Keys :
         \/ \E o \in {"get", "get_with"} :
              Upd(p, [Idle EXCEPT !.pc = "exp_get", !.op = o, !.key = k])
         \/ \E v \in Vals, t \in {None} \cup {Some(d) : d \in 0..MaxTtl} :
              Upd(p, [Idle EXCEPT !.pc = "data_insert", !.op = "set",
                                  !.key = k, !.val = v, !.ttl = t])
    /\ UNCHANGED <<data, expires, now, shardOf, guards, lockW, lockR, parserVars, wireVars, regVars, connVars, objVars, cfgVars>>

\* `let db = db.write().await;` of both handlers: the store-wide RwLock, taken
\* exclusively. (tokio's RwLock also queues fairly; only who holds it is kept.)
LockWrite(p) ==
    /\ procs[p].pc = "lock"
    /\ lockW = {} /\ lockR = {}
    /\ lockW' = {p}
    /\ Upd(p, [procs[p] EXCEPT !.pc = IF procs[p].op = "set" THEN "data_insert"
                                                              ELSE "exp_get"])
    /\ UNCHANGED <<data, expires, now, shardOf, guards, lockR, parserVars, wireVars, regVars, connVars, objVars, cfgVars>>

(***************************************************************************)
(* Database::get and Database::get_with, statement by statement.           *)
(***************************************************************************)
\* `if let Some(expire) = self.expires.get(key)`: the Ref lives in `expire`
\* to the end of the if-let body.
ExpiresGet(p) ==
    /\ procs[p].pc = "exp_get"
    /\ IF procs[p].key \in DOMAIN expires
         THEN /\ guards' = guards \cup {p}
              /\ Upd(p, [procs[p] EXCEPT !.pc = "check"])
         ELSE /\ guards' = guards
              /\ Upd(p, [procs[p] EXCEPT !.pc = "data_get"])
    /\ UNCHANGED <<data, expires, now, shardOf, lockW, lockR, parserVars, wireVars, regVars, connVars, objVars, cfgVars>>

\* `if Instant::now() > *expire`; when false the body ends and the Ref drops.
Expired(t, e) == t > e

CheckExpired(p) ==
    /\ procs[p].pc = "check"
    /\ IF Expired(now, expires[procs[p].key])
         THEN /\ guards' = guards
              /\ Upd(p, [procs[p] EXCEPT !.pc = "data_remove"])
         ELSE /\ guards' = guards \ {p}
              /\ Upd(p, [procs[p] EXCEPT !.pc = "data_get"])
    /\ UNCHANGED <<data, expires, now, shardOf, lockW, lockR, parserVars, wireVars, regVars, connVars, objVars, cfgVars>>

\* `self.data.remove(key);`
DataRemove(p) ==
    /\ procs[p].pc = "data_remove"
    /\ data' = MapRemove(data, procs[p].key)
    /\ Upd(p, [procs[p] EXCEPT !.pc = "exp_remove"])
    /\ UNCHANGED <<expires, now, shardOf, guards, lockW, lockR, parserVars, wireVars, regVars, connVars, objVars, cfgVars>>

\* `self.expires.remove(key);` of get / get_with (followed by `return None`,
\* position "ret_none") and of set's ttl-less branch.
ExpiresRemove(p) ==
    /\ procs[p].pc = "exp_remove"
    /\ ExpiresWritable(procs[p].key)
    /\ expires' = MapRemove(expires, procs[p].key)
    /\ Upd(p, [procs[p] EXCEPT !.pc = IF procs[p].op = "set" THEN "ret" ELSE "ret_none",
                               !.res = None])
    /\ UNCHANGED <<data, now, shardOf, guards, lockW, lockR, parserVars, wireVars, regVars, connVars, objVars, cfgVars>>

\* A get_with that hands back the object itself, never calling f.
GetResultUnprojected(o, m, k) == IF k \in DOMAIN m THEN Some(m[k]) ELSE None

\* `self.data.get(key).map(|val| val.clone())`, or `.map(|ref_val| f(&*ref_val))`.
GetResult(o, m, k) ==
    IF k \in DOMAIN m
      THEN Some(IF o = "get_with" THEN Project(m[k]) ELSE m[k])
      ELSE None

DataGet(p) ==
    /\ procs[p].pc = "data_get"
    /\ Upd(p, [procs[p] EXCEPT !.pc = "ret",
                               !.res = GetResult(procs[p].op, data, procs[p].key)])
    /\ UNCHANGED <<data, expires, now, shardOf, guards, lockW, lockR, parserVars, wireVars, regVars, connVars, objVars, cfgVars>>

(***************************************************************************)
(* Database::set, statement by statement.                                  *)
(***************************************************************************)
\* `self.data.insert(key.clone(), value);`
DataInsert(p) ==
    /\ procs[p].pc = "data_insert"
    /\ data' = MapInsert(data, procs[p].key, procs[p].val)
    /\ Upd(p, [procs[p] EXCEPT !.pc = IF IsSome(procs[p].ttl) THEN "set_now"
                                                               ELSE "exp_remove"])
    /\ UNCHANGED <<expires, now, shardOf, guards, lockW, lockR, parserVars, wireVars, regVars, connVars, objVars, cfgVars>>

\* The argument `Instant::now() + ttl`, evaluated before insert takes the lock.
SetNow(p) ==
    /\ procs[p].pc = "set_now"
    /\ Upd(p, [procs[p] EXCEPT !.pc = "exp_insert", !.tnow = now])
    /\ UNCHANGED <<data, expires, now, shardOf, guards, lockW, lockR, parserVars, wireVars, regVars, connVars, objVars, cfgVars>>

\* A set that records the instant it read, forgetting the ttl.
DeadlineIgnoresTtl(t, ttl) == t

Deadline(t, ttl) == t + Unwrap(ttl)

\* `self.expires.insert(key, <that instant>);`
ExpiresInsert(p) ==
    /\ procs[p].pc = "exp_insert"
    /\ ExpiresWritable(procs[p].key)
    /\ expires' = MapInsert(expires, procs[p].key,
                            Deadline(procs[p].tnow, procs[p].ttl))
    /\ Upd(p, [procs[p] EXCEPT !.pc = "ret"])
    /\ UNCHANGED <<data, now, shardOf, guards, lockW, lockR, parserVars, wireVars, regVars, connVars, objVars, cfgVars>>

\* A direct call of the Database returns: a Ref still held is dropped.
Return(p) ==
    /\ procs[p].pc \in {"ret", "ret_none"}
    /\ procs[p].cmd = "none"
    /\ guards' = guards \ {p}
    /\ lockW' = lockW \ {p}
    /\ lockR' = lockR \ {p}
    /\ Upd(p, Idle)
    /\ UNCHANGED <<data, expires, now, shardOf, parserVars, wireVars, regVars, connVars, objVars, cfgVars>>

\* Time passes.
Tick ==
    /\ now < MaxTime
    /\ now' = now + 1
    /\ UNCHANGED <<data, expires, shardOf, guards, lockW, lockR, procs, parserVars, wireVars, regVars, connVars, objVars, cfgVars>>

\* The steps of a caller of the Database's own methods.
Step(p) ==
    \/ ApiCall(p)
    \/ ExpiresGet(p)
    \/ CheckExpired(p)
    \/ DataRemove(p)
    \/ ExpiresRemove(p)
    \/ DataGet(p)
    \/ DataInsert(p)
    \/ SetNow(p)
    \/ ExpiresInsert(p)
    \/ Return(p)

\* Database::new: both maps empty; no call in progress. Shard names are
\* interchangeable, so key "a" is put in shard 1.
DbInit ==
    /\ data = <<>>
    /\ expires = <<>>
    /\ now = 0
    /\ shardOf \in {f \in [Keys -> Shards] : f["a"] = 1}
    /\ guards = {}
    /\ lockW = {}
    /\ lockR = {}
    /\ procs = [p \in Procs |-> Idle]

\* No request is being parsed and no frame is on the wire.
ParserOff == request = [t |-> "Null"] /\ parser = None /\ reply = None
WireOff == frame = [t |-> "Null"] /\ wire = None /\ parsed = None /\ reader = <<>>

\* The calls of do_register.
Drainers == {"d1", "d2"}

IdleDrainer == [pc |-> "idle", futures |-> <<>>, start |-> 0]
IdleLooker == [pc |-> "idle", name |-> <<>>, seen |-> 0, res |-> None]

\* The statics as Lazy::new builds them; nothing is registering or looking up.
RegOff ==
    /\ registry = <<>> /\ pending = <<>>
    /\ regWriter = None /\ regReaders = {}
    /\ drainers = [d \in Drainers |-> IdleDrainer]
    /\ looker = IdleLooker
    /\ history = <<>>

\* The connections the listener may accept.
Conns == {"k1", "k2"}

\* A connection that has not been accepted yet.
NoSocket == [state |-> "none", peer |-> "open", inbox |-> <<>>, req |-> None,
             sent |-> <<>>, cause |-> "none"]

\* main: the storage is empty and no connection has been accepted.
ConnOff == storage = <<>> /\ socket = [c \in Conns |-> NoSocket]

\* No function on objects has been called.
ObjOff == call = [fn |-> "none"] /\ out = None

\* The default of string_max_length: 2 << 25.
StringMaxLength == 67108864

\* init_config with RUDIS_STRING_MAX_LENGTH unset: `.unwrap_or(2 << 25)`.
ConfigDefault == config = [string_max_length |-> StringMaxLength]

Init == DbInit /\ ParserOff /\ WireOff /\ RegOff /\ ConnOff /\ ObjOff /\ ConfigDefault

\* Concurrent callers of the Database's methods.
Next == Tick \/ \E p \in Procs : Step(p)

Spec == Init /\ [][Next]_vars

\* One caller alone: every call runs from start to end without interference.
SeqNext == Tick \/ Step(SeqProc)

SeqSpec == Init /\ [][SeqNext]_vars

(***************************************************************************)
(* Claims about the storage map.                                           *)
(***************************************************************************)
IsGet(r) == r.op \in {"get", "get_with"}

\* C1 (as claimed; SeqSpec): a Database::get that found the expiration record
\* of its key past goes on to the end of the call (each of its remaining
\* steps can be taken), and when it returns from `return None` it reports
\* absence and neither map holds the key.
C1_GetExpiredReportsAbsence ==
    \A p \in Procs :
      LET r == procs[p] IN
        /\ (r.op = "get" /\ r.pc \in {"data_remove", "exp_remove"}) => ENABLED Step(p)
        /\ (r.op = "get" /\ r.pc = "ret_none") =>
              /\ r.res = None
              /\ r.key \notin DOMAIN data
              /\ r.key \notin DOMAIN expires

\* C2 (as claimed; SeqSpec): a get(k) that meets an expiration record whose
\* instant is the current one or an earlier one (what set(k, v, ttl=0) leaves
\* at that or any later instant) takes the eviction path and completes it; and
\* a get(k) that reads the data map of a key with no expiration record (as
\* after set(k, v2, None)) returns the stored value.
C2_Ttl0ThenGetAbsent ==
    [][\A p \in Procs :
         LET r == procs[p] IN
           /\ (r.op = "get" /\ r.pc = "check" /\ expires[r.key] <= now /\ procs'[p] # r)
                 => procs'[p].pc = "data_remove"
           /\ (r.op = "get" /\ r.pc \in {"data_remove", "exp_remove"}) => ENABLED Step(p)
           /\ (r.op = "get" /\ r.pc = "data_get" /\ r.key \notin DOMAIN expires
                 /\ r.key \in DOMAIN data /\ procs'[p] # r)
                 => procs'[p].res = Some(data[r.key])
      ]_vars

\* C3 (SeqSpec): when Database::set(k, v, ttl) returns, the data record of k
\* is v; with a ttl the expiration record of k is the instant read by the
\* call plus the ttl (an instant not after the present); without a ttl k has
\* no expiration record.
C3_SetPostcondition ==
    \A p \in Procs :
      LET r == procs[p] IN
        (r.op = "set" /\ r.pc = "ret") =>
          /\ MapGet(data, r.key) = Some(r.val)
          /\ IF IsSome(r.ttl)
               THEN /\ MapGet(expires, r.key) = Some(r.tnow + r.ttl[1])
                    /\ r.tnow <= now
               ELSE r.key \notin DOMAIN expires

\* A set with ttl 1 returned at a later instant than the one it read, and a
\* set without ttl returned while the other key still has its expiration.
C3_Witness ==
    LET r == procs[SeqProc] IN
      /\ r.op = "set" /\ r.pc = "ret"
      /\ \/ r.ttl = Some(1) /\ r.tnow = 0 /\ now = 1 /\ expires[r.key] = 1
         \/ r.ttl = None /\ now = 1 /\ DOMAIN expires = Keys \ {r.key}

\* C4 (as claimed; Spec): while set(k, v, None) is in progress with its value
\* written and every other caller is inside a get of k, no step takes that
\* value out of the data map (an eviction never removes what the set wrote).
C4_EvictionKeepsSetValue ==
    [][\A q \in Procs :
         LET r == procs[q] IN
           (/\ r.op = "set" /\ r.ttl = None /\ r.pc \in {"exp_remove", "ret"}
            /\ MapGet(data, r.key) = Some(r.val)
            /\ \A p \in Procs \ {q} : IsGet(procs[p]) /\ procs[p].key = r.key)
           => MapGet(data', r.key) = Some(r.val)
      ]_vars

\* C5 (as claimed; CmdSpec): a command never waits for a command on another
\* key: while one connection waits to enter its handler's critical section,
\* no connection working on a different key holds the store-wide lock
\* exclusively.
C5_NoStoreWideExclusiveLock ==
    \A p, q \in Procs :
      (/\ p # q
       /\ procs[p].pc = "lock"
       /\ procs[q].cmd # "none"
       /\ procs[p].key # procs[q].key)
      => q \notin lockW

(***************************************************************************)
(* Text and bytes. A String or a Vec<u8> is a sequence of one-character    *)
(* strings; "xFF" stands for a byte that no UTF-8 text contains.           *)
(***************************************************************************)
Lowers == <<"a","b","c","d","e","f","g","h","i","j","k","l","m",
            "n","o","p","q","r","s","t","u","v","w","x","y","z">>
Uppers == <<"A","B","C","D","E","F","G","H","I","J","K","L","M",
            "N","O","P","Q","R","S","T","U","V","W","X","Y","Z">>
Digits == <<"0","1","2","3","4","5","6","7","8","9">>

IndexIn(seq, c) == IF \E i \in 1..Len(seq) : seq[i] = c
                     THEN CHOOSE i \in 1..Len(seq) : seq[i] = c
                     ELSE 0

\* str::to_uppercase / to_ascii_uppercase and str::to_lowercase.
ToUpper(s) == [i \in 1..Len(s) |->
                 IF IndexIn(Lowers, s[i]) # 0 THEN Uppers[IndexIn(Lowers, s[i])] ELSE s[i]]
ToLower(s) == [i \in 1..Len(s) |->
                 IF IndexIn(Uppers, s[i]) # 0 THEN Lowers[IndexIn(Uppers, s[i])] ELSE s[i]]

\* Result<T, E>.
Ok(v) == [ok |-> TRUE, v |-> v]
Err(e) == [ok |-> FALSE, e |-> e]

\* String::from_utf8(bytes).
\* A conversion that accepts every byte string (String::from_utf8_unchecked).
FromUtf8Unchecked(bytes) == Ok(bytes)

FromUtf8(bytes) ==
    IF \E i \in 1..Len(bytes) : bytes[i] = "xFF"
      THEN Err("FromUtf8Error")
      ELSE Ok(bytes)

IsDigits(s) == Len(s) > 0 /\ \A i \in 1..Len(s) : IndexIn(Digits, s[i]) # 0

RECURSIVE DigitsValue(_)
DigitsValue(s) ==
    IF Len(s) = 0 THEN 0
    ELSE 10 * DigitsValue(SubSeq(s, 1, Len(s) - 1)) + (IndexIn(Digits, s[Len(s)]) - 1)

\* str::parse::<i64>(): an optional sign, then one or more decimal digits
\* (the texts of the model are far from the 64-bit range).
ParseI64(s) ==
    IF Len(s) > 0 /\ s[1] \in {"+", "-"}
      THEN IF IsDigits(Tail(s))
             THEN Ok(IF s[1] = "-" THEN 0 - DigitsValue(Tail(s)) ELSE DigitsValue(Tail(s)))
             ELSE Err("ParseIntError")
      ELSE IF IsDigits(s) THEN Ok(DigitsValue(s)) ELSE Err("ParseIntError")

\* str::parse::<u64>(): as above, without the minus sign.
ParseU64(s) ==
    IF Len(s) > 0 /\ s[1] = "+"
      THEN IF IsDigits(Tail(s)) THEN Ok(DigitsValue(Tail(s))) ELSE Err("ParseIntError")
      ELSE IF IsDigits(s) THEN Ok(DigitsValue(s)) ELSE Err("ParseIntError")

(***************************************************************************)
(* protocol::Frame.                                                        *)
(***************************************************************************)
SimpleString(s) == [t |-> "SimpleString", s |-> s]
ErrorFrame(s) == [t |-> "Error", s |-> s]
Integer(i) == [t |-> "Integer", i |-> i]
BulkString(o) == [t |-> "BulkString", b |-> o]
Array(o) == [t |-> "Array", a |-> o]
Null == [t |-> "Null"]
Boolean(x) == [t |-> "Boolean", x |-> x]
Exit == [t |-> "Exit"]

(***************************************************************************)
(* command::parser::Parser.                                                *)
(***************************************************************************)
\* Parser::new(frame).
ParserNew(f) ==
    IF f.t = "Array" /\ IsSome(f.a) /\ Len(Unwrap(f.a)) > 0
      THEN LET parts == Unwrap(f.a)
               first == parts[1]
               cmd == IF first.t = "SimpleString" THEN Ok(first.s)
                      ELSE IF first.t = "BulkString" /\ IsSome(first.b)
                        THEN FromUtf8(Unwrap(first.b))
                      ELSE Err("WrongType")
           IN  IF cmd.ok
                 THEN Ok([cmd |-> ToLower(cmd.v), parts |-> parts, cursor |-> 0])
                 ELSE cmd
    ELSE IF f.t = "Array" /\ IsSome(f.a)
      THEN Err("InvalidCommandFormat")
    ELSE Err("WrongType")

\* Parser::len().
ParserLen(ps) == Len(ps.parts)

\* Parser::has_next().
HasNext(ps) == ps.cursor < Len(ps.parts)

\* TryFrom<Frame> for String / i64 / Vec<u8> / bool.
ConvertTo(ty, f) ==
    CASE ty = "String" ->
           IF f.t = "SimpleString" THEN Ok(f.s)
           ELSE IF f.t = "BulkString" /\ IsSome(f.b) THEN FromUtf8(Unwrap(f.b))
           ELSE Err("WrongType")
      [] ty = "i64" ->
           IF f.t = "Integer" THEN Ok(f.i)
           ELSE IF f.t = "BulkString" /\ IsSome(f.b)
             THEN LET u == FromUtf8(Unwrap(f.b)) IN IF u.ok THEN ParseI64(u.v) ELSE u
           ELSE Err("WrongType")
      [] ty = "Vec<u8>" ->
           IF f.t = "BulkString" /\ IsSome(f.b) THEN Ok(Unwrap(f.b)) ELSE Err("WrongType")
      [] ty = "bool" ->
           IF f.t = "Integer" /\ f.i = 0 THEN Ok(FALSE)
           ELSE IF f.t = "Integer" /\ f.i = 1 THEN Ok(TRUE)
           ELSE IF f.t = "SimpleString" /\ ToUpper(f.s) = <<"T","R","U","E">> THEN Ok(TRUE)
           ELSE IF f.t = "SimpleString" /\ ToUpper(f.s) = <<"F","A","L","S","E">> THEN Ok(FALSE)
           ELSE Err("WrongType")

\* resp.rs, impl FromRespValue for String / i64 / Vec<u8> / bool: the older
\* conversions, over RespValue and with RespError.
FromRespValue(ty, f) ==
    CASE ty = "String" ->
           IF f.t = "SimpleString" THEN Ok(f.s)
           ELSE IF f.t = "BulkString" /\ IsSome(f.b) THEN FromUtf8(Unwrap(f.b))
           ELSE Err("InvalidFormat")
      [] ty = "i64" ->
           IF f.t = "Integer" THEN Ok(f.i)
           ELSE IF f.t = "BulkString" /\ IsSome(f.b)
             THEN LET u == FromUtf8(Unwrap(f.b)) IN
                    IF ~u.ok THEN u
                    ELSE IF ParseI64(u.v).ok THEN ParseI64(u.v) ELSE Err("InvalidFormat")
           ELSE Err("InvalidFormat")
      [] ty = "Vec<u8>" ->
           IF f.t = "BulkString" /\ IsSome(f.b) THEN Ok(Unwrap(f.b)) ELSE Err("InvalidFormat")
      [] ty = "bool" ->
           IF f.t = "Integer" /\ f.i = 0 THEN Ok(FALSE)
           ELSE IF f.t = "Integer" /\ f.i = 1 THEN Ok(TRUE)
           ELSE IF f.t = "SimpleString" /\ ToUpper(f.s) = <<"T","R","U","E">> THEN Ok(TRUE)
           ELSE IF f.t = "SimpleString" /\ ToUpper(f.s) = <<"F","A","L","S","E">> THEN Ok(FALSE)
           ELSE Err("InvalidFormat")

\* A next() that takes the element only when its conversion succeeds.
ParserNextKeepOnError(ps, ty) ==
    IF ~HasNext(ps)
      THEN [res |-> Err("InvalidArgumentNumber"), ps |-> ps]
      ELSE LET c == ConvertTo(ty, ps.parts[ps.cursor + 1])
           IN  [res |-> c,
                ps |-> IF c.ok THEN [ps EXCEPT !.cursor = ps.cursor + 1] ELSE ps]

\* Parser::next::<T>(): the result and the parser after the call.
ParserNext(ps, ty) ==
    IF ~HasNext(ps)
      THEN [res |-> Err("InvalidArgumentNumber"), ps |-> ps]
      ELSE [res |-> ConvertTo(ty, ps.parts[ps.cursor + 1]),
            ps |-> [ps EXCEPT !.cursor = ps.cursor + 1]]

(***************************************************************************)
(* The TryFrom<Parser> that #[derive(CommandHandler)] generates            *)
(* (rudis-macros, generate_from_parse_impl). A command struct is given by  *)
(* its fields: the type, whether the type is Option<..>, the flag name of  *)
(* an #[arg] flag (None without one) and the aliases of a named option.    *)
(***************************************************************************)
Field(ty, option, flag, aliases) ==
    [ty |-> ty, option |-> option, flag |-> flag, aliases |-> aliases]

\* The classification of a field: flag, pair (Option<T>) or positional.
Kind(fd) == IF IsSome(fd.flag) THEN "flag"
            ELSE IF fd.option THEN "pair"
            ELSE "pos"

\* calculate_required_args_count: the fields whose type is not Option<..>.
RequiredArgsCount(shape) ==
    IF shape.kind = "unit" THEN 0
    ELSE Cardinality({i \in 1..Len(shape.fields) : ~shape.fields[i].option})

\* TryFrom<(String, String)> for Expiration.
PairConvert(k, v) ==
    LET n == ParseU64(v) IN
      IF ~n.ok THEN n
      ELSE IF ToUpper(k) \in {<<"E","X">>, <<"P","X">>,
                              <<"E","X","A","T">>, <<"P","X","A","T">>}
        THEN Ok(<<ToUpper(k), n.v>>)
      ELSE Err("InvalidCommandFormat")

\* `let #ident: #ty = parser.next()?;` for each positional field, in order.
RECURSIVE ParsePositional(_, _, _, _)
ParsePositional(fields, i, ps, acc) ==
    IF i > Len(fields) THEN [ok |-> TRUE, ps |-> ps, acc |-> acc]
    ELSE IF Kind(fields[i]) # "pos" THEN ParsePositional(fields, i + 1, ps, acc)
    ELSE LET r == ParserNext(ps, fields[i].ty) IN
           IF r.res.ok
             THEN ParsePositional(fields, i + 1, r.ps, [acc EXCEPT ![i] = r.res.v])
             ELSE [ok |-> FALSE, e |-> r.res.e]

\* A match without the arms of the named options: only flags are known.
ArmOfFlagsOnly(fields, K) ==
    LET flags == {i \in 1..Len(fields) :
                    Kind(fields[i]) = "flag" /\ ToUpper(Unwrap(fields[i].flag)) = K}
    IN  IF flags # {} THEN CHOOSE i \in flags : \A j \in flags : i <= j ELSE 0

\* The match arm a token selects: the first option field one of whose aliases
\* is the token, else the first flag field named by it, else 0 (`other`).
ArmOf(fields, K) ==
    LET pairs == {i \in 1..Len(fields) :
                    /\ Kind(fields[i]) = "pair"
                    /\ \E j \in 1..Len(fields[i].aliases) : ToUpper(fields[i].aliases[j]) = K}
        flags == {i \in 1..Len(fields) :
                    Kind(fields[i]) = "flag" /\ ToUpper(Unwrap(fields[i].flag)) = K}
    IN  IF pairs # {} THEN CHOOSE i \in pairs : \A j \in pairs : i <= j
        ELSE IF flags # {} THEN CHOOSE i \in flags : \A j \in flags : i <= j
        ELSE 0

\* `while parser.has_next() { let k: String = parser.next()?; match ... }`.
RECURSIVE OptionLoop(_, _, _)
OptionLoop(fields, ps, acc) ==
    IF ~HasNext(ps) THEN Ok(acc)
    ELSE LET k == ParserNext(ps, "String") IN
      IF ~k.res.ok THEN k.res
      ELSE LET arm == ArmOf(fields, ToUpper(k.res.v)) IN
        IF arm = 0 THEN Err("InvalidCommandFormat")
        ELSE IF Kind(fields[arm]) = "flag"
          THEN OptionLoop(fields, k.ps, [acc EXCEPT ![arm] = TRUE])
        ELSE LET v == ParserNext(k.ps, "String") IN
          IF ~v.res.ok THEN v.res
          ELSE LET c == PairConvert(k.res.v, v.res.v) IN
            IF ~c.ok THEN c
            ELSE OptionLoop(fields, v.ps, [acc EXCEPT ![arm] = Some(c.v)])

\* The generated try_from(parser): the fields' values in declaration order.
TryFromParser(shape, ps) ==
    IF ParserLen(ps) < RequiredArgsCount(shape) THEN Err("InvalidArgumentNumber")
    ELSE IF shape.kind = "unit" THEN Ok(<<>>)
    ELSE LET fields == shape.fields
             inits == [i \in 1..Len(fields) |->
                         IF Kind(fields[i]) = "flag" THEN FALSE ELSE None]
             pos == ParsePositional(fields, 1, ps, inits)
         IN  IF ~pos.ok THEN Err(pos.e)
             ELSE OptionLoop(fields, pos.ps, pos.acc)

\* The command structs the parser is tried on.
PlainField(ty) == Field(ty, FALSE, None, <<>>)
Shapes == <<
    \* struct Ping;
    [name |-> <<"P","I","N","G">>, kind |-> "unit", fields |-> <<>>],
    \* struct Get { key: String }
    [name |-> <<"G","E","T">>, kind |-> "named", fields |-> <<PlainField("String")>>],
    \* struct GetRange { key: String, start: i64, end: i64 }
    [name |-> <<"G","E","T","R","A","N","G","E">>, kind |-> "named",
     fields |-> <<PlainField("String"), PlainField("i64"), PlainField("i64")>>],
    \* A struct with a named option and a flag:
    \* struct Set { key: String, value: Vec<u8>,
    \*              #[arg(aliases = ["EX", "PX"])] expiration: Option<Expiration>,
    \*              #[arg(alias = "NX")] nx: bool }
    [name |-> <<"S","E","T">>, kind |-> "named",
     fields |-> <<PlainField("String"), PlainField("Vec<u8>"),
                  Field("Expiration", TRUE, None, <<<<"E","X">>, <<"P","X">>>>),
                  Field("bool", FALSE, Some(<<"N","X">>), <<>>)>>],
    \* The same options after a single positional field:
    \* struct Touch { key: String,
    \*                #[arg(aliases = ["ex", "px"])] expiration: Option<Expiration>,
    \*                #[arg(alias = "nx")] nx: bool }
    [name |-> <<"T","O","U","C","H">>, kind |-> "named",
     fields |-> <<PlainField("String"),
                  Field("Expiration", TRUE, None, <<<<"e","x">>, <<"p","x">>>>),
                  Field("bool", FALSE, Some(<<"n","x">>), <<>>)>>] >>

Types == {"String", "i64", "Vec<u8>", "bool"}

(***************************************************************************)
(* Requests handed to the parser.                                          *)
(***************************************************************************)
\* A request array has at most MaxParts elements.
MaxParts == 3

Elems == <<
    BulkString(Some(<<"G","e","t">>)),
    SimpleString(<<"k">>),
    BulkString(Some(<<"7">>)),
    BulkString(Some(<<"x">>)),
    BulkString(Some(<<"xFF">>)),
    Integer(1),
    BulkString(None),
    BulkString(Some(<<"e","x">>)),
    SimpleString(<<"N","x">>),
    SimpleString(<<"T","r","u","e">>),
    BulkString(Some(<<"t","r","u","e">>)) >>

NonArrays == << Array(None), Null, SimpleString(<<"G","e","t">>),
                BulkString(Some(<<"G","e","t">>)), Integer(1) >>

RequestInit ==
    /\ \/ \E n \in 0..MaxParts : \E f \in [1..n -> 1..Len(Elems)] :
            request = Array(Some([i \in 1..n |-> Elems[f[i]]]))
       \/ \E j \in 1..Len(NonArrays) : request = NonArrays[j]
    /\ parser = None
    /\ reply = None

\* A call of Parser::new(request).
ParserNewCall ==
    /\ parser = None /\ reply = None
    /\ parser' = Some(ParserNew(request))
    /\ UNCHANGED <<request, reply, dbVars, wireVars, regVars, connVars, objVars, cfgVars>>

\* A call of next::<T>() on the parser.
ParserNextCall ==
    /\ IsSome(parser) /\ Unwrap(parser).ok
    /\ \E ty \in Types :
         LET ps == Unwrap(parser).v
             r == ParserNext(ps, ty)
         IN  /\ parser' = Some(Ok(r.ps))
             /\ reply' = Some([op |-> "next", ty |-> ty, at |-> ps.cursor, res |-> r.res])
    /\ UNCHANGED <<request, dbVars, wireVars, regVars, connVars, objVars, cfgVars>>

\* handler_func: `let cmd: #struct_name = args.try_into()?;` on the fresh
\* parser, which is moved into the conversion.
TryFromCall ==
    /\ IsSome(parser) /\ Unwrap(parser).ok /\ reply = None
    /\ \E j \in 1..Len(Shapes) :
         reply' = Some([op |-> "try_from", shape |-> j,
                        res |-> TryFromParser(Shapes[j], Unwrap(parser).v)])
    /\ parser' = None
    /\ UNCHANGED <<request, dbVars, wireVars, regVars, connVars, objVars, cfgVars>>

\* A call of T::from_resp_value on an element of the request.
FromRespValueCall ==
    /\ parser = None /\ reply = None
    /\ request.t = "Array" /\ IsSome(request.a)
    /\ \E i \in 1..Len(Unwrap(request.a)), ty \in Types :
         reply' = Some([op |-> "from_resp_value", ty |-> ty, at |-> i - 1,
                        res |-> FromRespValue(ty, Unwrap(request.a)[i])])
    /\ UNCHANGED <<request, parser, dbVars, wireVars, regVars, connVars, objVars, cfgVars>>

ParserStep == ParserNewCall \/ ParserNextCall \/ TryFromCall \/ FromRespValueCall

ParserInit == DbInit /\ RequestInit /\ WireOff /\ RegOff /\ ConnOff /\ ObjOff /\ ConfigDefault

ParserSpec == ParserInit /\ [][ParserStep]_vars

(***************************************************************************)
(* Claims about the parser and the derived conversion.                    *)
(***************************************************************************)
\* The request is an array with at least one element.
HasParts(f) == f.t = "Array" /\ IsSome(f.a) /\ Len(Unwrap(f.a)) > 0

\* A string frame: a simple string or a non-null bulk string.
IsStringFrame(e) == e.t = "SimpleString" \/ (e.t = "BulkString" /\ IsSome(e.b))

NameBytes(e) == IF e.t = "SimpleString" THEN e.s ELSE Unwrap(e.b)

\* cmd is name with every upper-case letter replaced by its lower-case one.
CaseFolded(cmd, name) ==
    /\ Len(cmd) = Len(name)
    /\ \A i \in 1..Len(name) :
         IF \E j \in 1..26 : Uppers[j] = name[i]
           THEN \E j \in 1..26 : Uppers[j] = name[i] /\ cmd[i] = Lowers[j]
           ELSE cmd[i] = name[i]

\* The parser as Parser::new returned it, before any call on it.
Fresh == IsSome(parser) /\ Unwrap(parser).ok /\ reply = None

\* The reply of the first next() on the parser.
FirstNext == IsSome(reply) /\ Unwrap(reply).op = "next" /\ Unwrap(reply).at = 0

\* C6: after Parser::new on an array of n elements, len() reports n - 1, and
\* the first next() returns the element at index 1 of the array (the first
\* argument), the command name having been consumed.
C6_NameConsumed ==
    /\ Fresh => ParserLen(Unwrap(parser).v) = Len(Unwrap(request.a)) - 1
    /\ (FirstNext /\ Len(Unwrap(request.a)) >= 2) =>
         Unwrap(reply).res = ConvertTo(Unwrap(reply).ty, Unwrap(request.a)[2])

\* The reply of a derived conversion tried on the request.
Tried == IsSome(reply) /\ Unwrap(reply).op = "try_from"

\* C7: for a derived command with R required (non-Option) fields, a request
\* with fewer than R arguments after the command name fails with
\* InvalidArgumentNumber: it never succeeds and never fails with a type or
\* format error.
C7_TooFewIsCountError ==
    (Tried /\ Len(Unwrap(request.a)) - 1 < RequiredArgsCount(Shapes[Unwrap(reply).shape]))
      => Unwrap(reply).res = Err("InvalidArgumentNumber")

\* C8 as stated: Parser::new fails when the frame is not an array, is a null
\* or an empty array, or its first element is not a string frame; in every
\* other case it succeeds with the case-folded command name.
C8_NewFailsOnlyOnShape ==
    (IsSome(parser) /\ reply = None) =>
      IF HasParts(request) /\ IsStringFrame(Unwrap(request.a)[1])
        THEN /\ Unwrap(parser).ok
             /\ CaseFolded(Unwrap(parser).v.cmd, NameBytes(Unwrap(request.a)[1]))
        ELSE ~Unwrap(parser).ok

\* The bytes are valid UTF-8.
ValidUtf8(bytes) == \A i \in 1..Len(bytes) : bytes[i] # "xFF"

\* The first element names a command: a simple string, or a non-null bulk
\* string whose bytes are valid UTF-8.
NamesCommand(e) ==
    \/ e.t = "SimpleString"
    \/ e.t = "BulkString" /\ IsSome(e.b) /\ ValidUtf8(Unwrap(e.b))

\* C8: Parser::new fails when the frame is not an array, is a null or an
\* empty array, or its first element is neither a simple string nor a
\* non-null bulk string of valid UTF-8; in every other case it succeeds with
\* the case-folded command name.
C8_NewFailsOnShapeOrUtf8 ==
    (IsSome(parser) /\ reply = None) =>
      IF HasParts(request) /\ NamesCommand(Unwrap(request.a)[1])
        THEN /\ Unwrap(parser).ok
             /\ CaseFolded(Unwrap(parser).v.cmd, NameBytes(Unwrap(request.a)[1]))
        ELSE ~Unwrap(parser).ok

\* Parser::new has refused a request whose first element is a bulk string
\* that is not valid UTF-8.
C8_Witness ==
    /\ IsSome(parser) /\ reply = None /\ ~Unwrap(parser).ok
    /\ HasParts(request) /\ IsStringFrame(Unwrap(request.a)[1])
    /\ ~NamesCommand(Unwrap(request.a)[1])

(***************************************************************************)
(* protocol: Frame::write_to and parse. The wire is a sequence of bytes;   *)
(* "xFF" stands for a byte that is not valid UTF-8.                        *)
(***************************************************************************)
CRLF == <<"\r", "\n">>

\* char::is_whitespace for the bytes of the model.
Whitespace == {" ", "\t", "\n", "\r"}

RECURSIVE FormatNat(_)
FormatNat(n) == IF n < 10 THEN <<Digits[n + 1]>>
                ELSE FormatNat(n \div 10) \o <<Digits[(n % 10) + 1]>>

\* format!("{}", i) of an integer.
FormatInt(i) == IF i < 0 THEN <<"-">> \o FormatNat(0 - i) ELSE FormatNat(i)

\* Frame::write_to: the bytes written for a frame.
RECURSIVE WriteTo(_)
WriteTo(f) ==
    IF f.t = "SimpleString" THEN <<"+">> \o f.s \o CRLF
    ELSE IF f.t = "Error" THEN <<"-">> \o f.s \o CRLF
    ELSE IF f.t = "Integer" THEN <<":">> \o FormatInt(f.i) \o CRLF
    ELSE IF f.t = "BulkString" /\ IsSome(f.b)
      THEN <<"$">> \o FormatInt(Len(Unwrap(f.b))) \o CRLF \o Unwrap(f.b) \o CRLF
    ELSE IF f.t = "BulkString" THEN <<"$", "0">> \o CRLF \o CRLF
    ELSE IF f.t = "Array" /\ IsSome(f.a)
      THEN LET elems == Unwrap(f.a)
               Items[n \in 0..Len(elems)] ==
                   IF n = 0 THEN <<>> ELSE Items[n - 1] \o WriteTo(elems[n])
           IN  Items[Len(elems)]
    ELSE IF f.t = "Null" THEN <<"_">> \o CRLF
    ELSE IF f.t = "Boolean" THEN <<"#", IF f.x THEN "t" ELSE "f">> \o CRLF
    ELSE IF f.t = "Exit" THEN <<"b", "y", "e">> \o CRLF
    ELSE <<"-", "e", "r", "r">> \o CRLF

\* AsyncBufReadExt::read_line: the bytes up to and including the first "\n"
\* (all of them when there is none), which must be valid UTF-8.
ReadLine(bytes) ==
    LET ends == {i \in 1..Len(bytes) : bytes[i] = "\n"}
        n == IF ends = {} THEN Len(bytes) ELSE CHOOSE i \in ends : \A j \in ends : i <= j
        line == SubSeq(bytes, 1, n)
    IN  [ok |-> \A i \in 1..n : line[i] # "xFF",
         line |-> line,
         rest |-> SubSeq(bytes, n + 1, Len(bytes))]

\* str::trim_end.
TrimEnd(s) ==
    LET keep == {i \in 1..Len(s) : s[i] \notin Whitespace}
        n == IF keep = {} THEN 0 ELSE CHOOSE i \in keep : \A j \in keep : j <= i
    IN  SubSeq(s, 1, n)

Parsed(res, rest) == [res |-> res, rest |-> rest]

\* A panic of the task running parse: no Result reaches the caller.
Panic(msg) == [ok |-> FALSE, panic |-> msg]

\* A length test that never recognises the null form.
NeverNull(n) == FALSE

\* `if len == -1` / `if count == -1`: the header declares a null value.
IsNullLength(n) == n = -1

\* A read that stops at the first CR instead of after n bytes.
ReadToCr(bytes, n) ==
    LET crs == {i \in 1..Len(bytes) : bytes[i] = "\r"}
        m == IF crs = {} THEN Len(bytes) ELSE (CHOOSE i \in crs : \A j \in crs : i <= j) - 1
    IN  [ok |-> TRUE, buf |-> SubSeq(bytes, 1, m), rest |-> SubSeq(bytes, m + 1, Len(bytes))]

\* AsyncReadExt::read_exact into a buffer of n bytes: an UnexpectedEof error,
\* with the reader drained, when fewer than n bytes are left.
ReadExact(bytes, n) ==
    IF Len(bytes) < n THEN [ok |-> FALSE, buf |-> <<>>, rest |-> <<>>]
    ELSE [ok |-> TRUE, buf |-> SubSeq(bytes, 1, n), rest |-> SubSeq(bytes, n + 1, Len(bytes))]

\* parse(reader): the result, and what is left in the reader.
RECURSIVE Parse(_)
RECURSIVE ParseItems(_, _, _)
\* `for _ in 0..count { items.push(parse(reader).await?) }`.
ParseItems(bytes, count, items) ==
    IF count = 0 THEN Parsed(Ok(Array(Some(items))), bytes)
    ELSE LET r == Parse(bytes) IN
           IF r.res.ok THEN ParseItems(r.rest, count - 1, Append(items, r.res.v))
           ELSE r

Parse(bytes) ==
    LET rl == ReadLine(bytes)
        line == rl.line
        rest == rl.rest
        prefix == line[1]
        content == TrimEnd(Tail(line))
        n == ParseI64(content)
    IN  IF ~rl.ok THEN Parsed(Err("Io"), rest)
        ELSE IF Len(line) = 0 THEN Parsed(Err("InvalidFormat"), rest)
        ELSE IF Len(line) > StringMaxLength THEN Parsed(Err("ValueTooLong"), rest)
        ELSE IF prefix = "+" THEN Parsed(Ok(SimpleString(content)), rest)
        ELSE IF prefix = "-" THEN Parsed(Ok(ErrorFrame(content)), rest)
        ELSE IF prefix = ":"
          THEN Parsed(IF n.ok THEN Ok(Integer(n.v)) ELSE n, rest)
        ELSE IF prefix = "$"
          THEN IF ~n.ok THEN Parsed(n, rest)
               ELSE IF IsNullLength(n.v) THEN Parsed(Ok(BulkString(None)), rest)
               \* `vec![0; len as usize]` with a negative len panics.
               ELSE IF n.v < 0 THEN Parsed(Panic("capacity overflow"), rest)
               ELSE LET buf == ReadExact(rest, n.v)
                        crlf == ReadExact(buf.rest, 2)
                    IN  IF ~buf.ok THEN Parsed(Err("Io"), buf.rest)
                        ELSE IF ~crlf.ok THEN Parsed(Err("Io"), crlf.rest)
                        ELSE Parsed(Ok(BulkString(Some(buf.buf))), crlf.rest)
        ELSE IF prefix = "*"
          THEN IF ~n.ok THEN Parsed(n, rest)
               ELSE IF IsNullLength(n.v) THEN Parsed(Ok(Array(None)), rest)
               \* `Vec::with_capacity(count as usize)` with a negative count panics.
               ELSE IF n.v < 0 THEN Parsed(Panic("capacity overflow"), rest)
               ELSE ParseItems(rest, n.v, <<>>)
        ELSE Parsed(Err("UnsupportedType"), rest)

(***************************************************************************)
(* Frames written to the wire and parsed back.                             *)
(***************************************************************************)
\* An array frame has at most MaxArrayLen elements.
MaxArrayLen == 2

Leaves == <<
    SimpleString(<<"O", "K">>), SimpleString(<<>>), SimpleString(<<"a", " ">>),
    ErrorFrame(<<"e">>),
    Integer(0), Integer(-7), Integer(12),
    BulkString(Some(<<>>)), BulkString(Some(<<"h", "i">>)),
    BulkString(Some(CRLF)), BulkString(Some(<<"xFF">>)), BulkString(None),
    Array(None), Null, Boolean(TRUE), Boolean(FALSE), Exit >>

FrameInit ==
    /\ \/ \E j \in 1..Len(Leaves) : frame = Leaves[j]
       \/ \E n \in 0..MaxArrayLen : \E f \in [1..n -> 1..Len(Leaves)] :
            LET inner == Array(Some([i \in 1..n |-> Leaves[f[i]]])) IN
              \/ frame = inner
              \/ frame = Array(Some(<<inner>>))
              \/ \E j \in 1..Len(Leaves) : frame = Array(Some(<<Leaves[j], inner>>))
    /\ wire = None
    /\ parsed = None
    /\ reader = <<>>

\* frame.write_to(writer).
WriteToCall ==
    /\ wire = None
    /\ wire' = Some(WriteTo(frame))
    /\ UNCHANGED <<frame, parsed, reader, dbVars, parserVars, regVars, connVars, objVars, cfgVars>>

\* parse(reader) on the bytes written.
ParseCall ==
    /\ IsSome(wire) /\ parsed = None
    /\ parsed' = Some(Parse(Unwrap(wire)).res)
    /\ reader' = Parse(Unwrap(wire)).rest
    /\ UNCHANGED <<frame, wire, dbVars, parserVars, regVars, connVars, objVars, cfgVars>>

ProtoStep == WriteToCall \/ ParseCall

ProtoInit == DbInit /\ ParserOff /\ FrameInit /\ RegOff /\ ConnOff /\ ObjOff /\ ConfigDefault

ProtoSpec == ProtoInit /\ [][ProtoStep]_vars

(***************************************************************************)
(* Claims about the wire format.                                           *)
(***************************************************************************)
\* The frames the round trip is stated for: simple string, error, integer,
\* non-null bulk string, null, boolean, and non-null arrays of such frames.
RECURSIVE NonNullFrame(_)
NonNullFrame(f) ==
    IF f.t \in {"SimpleString", "Error", "Integer", "Null", "Boolean"} THEN TRUE
    ELSE IF f.t = "BulkString" THEN IsSome(f.b)
    ELSE IF f.t = "Array"
      THEN IsSome(f.a) /\ \A i \in 1..Len(Unwrap(f.a)) : NonNullFrame(Unwrap(f.a)[i])
    ELSE FALSE

\* C9: for every constructible non-null frame V (nested and empty arrays,
\* null and boolean included), parsing the bytes written by write_to(V)
\* yields a frame equal to V.
C9_RoundTrip ==
    (IsSome(parsed) /\ NonNullFrame(frame)) => Unwrap(parsed) = Ok(frame)

\* C10: write_to writes a null bulk string as "$-1\r\n" and a null array as
\* "*-1\r\n", so their bytes differ from those of the empty bulk string and
\* of the empty array, and they parse back to the null values.
C10_NullForms ==
    /\ (IsSome(wire) /\ frame = BulkString(None)) =>
         /\ Unwrap(wire) = <<"$", "-", "1">> \o CRLF
         /\ Unwrap(wire) # WriteTo(BulkString(Some(<<>>)))
    /\ (IsSome(wire) /\ frame = Array(None)) =>
         /\ Unwrap(wire) = <<"*", "-", "1">> \o CRLF
         /\ Unwrap(wire) # WriteTo(Array(Some(<<>>)))
    /\ (IsSome(parsed) /\ (frame = BulkString(None) \/ frame = Array(None))) =>
         Unwrap(parsed) = Ok(frame)

(***************************************************************************)
(* Bytes arriving from a client and parsed: a header line (lead byte,      *)
(* content, line end) followed by up to MaxTail further pieces.            *)
(***************************************************************************)
MaxTail == 3

Leads == <<"$", "*", "+", ":">>

Contents == << <<"-", "1">>, <<"-", "2">>, <<"0">>, <<"1">>, <<"2">>, <<"a", " ">>,
               <<"6", "7", "1", "0", "8", "8", "6", "5">>, <<>> >>

LineEnds == << CRLF, <<"\n">>, <<>> >>

Pieces == << <<"h", "i">>, CRLF, <<"X">>,
             <<":", "1">> \o CRLF, <<"+", "a">> \o CRLF, <<"*", "1">> \o CRLF,
             <<"$", "-", "2">> \o CRLF >>

RECURSIVE Flatten(_)
Flatten(seqs) == IF Len(seqs) = 0 THEN <<>> ELSE Head(seqs) \o Flatten(Tail(seqs))

InputInit ==
    /\ \E l \in 1..Len(Leads), c \in 1..Len(Contents), e \in 1..Len(LineEnds) :
         \E n \in 0..MaxTail : \E f \in [1..n -> 1..Len(Pieces)] :
           wire = Some(<<Leads[l]>> \o Contents[c] \o LineEnds[e]
                         \o Flatten([i \in 1..n |-> Pieces[f[i]]]))
    /\ frame = Null
    /\ parsed = None
    /\ reader = <<>>

WireInit == DbInit /\ ParserOff /\ InputInit /\ RegOff /\ ConnOff /\ ObjOff /\ ConfigDefault

WireSpec == WireInit /\ [][ParseCall]_vars

(***************************************************************************)
(* Claims about parse.                                                     *)
(***************************************************************************)
StartsWith(bytes, prefix) ==
    Len(bytes) >= Len(prefix) /\ SubSeq(bytes, 1, Len(prefix)) = prefix

\* The header line of a bulk string / an array declaring n.
BulkHeader(n) == <<"$">> \o FormatInt(n) \o CRLF
ArrayHeader(n) == <<"*">> \o FormatInt(n) \o CRLF

\* parse has returned for the input.
Done == IsSome(wire) /\ IsSome(parsed)
Input == Unwrap(wire)
Result == Unwrap(parsed)

\* C11: parse maps a bulk string of declared length -1 to the null bulk
\* string and of length 0 to the empty one, an array of declared count -1 to
\* the null array and of count 0 to the empty one; null and empty differ.
C11_NullVersusEmpty ==
    /\ (Done /\ StartsWith(Input, BulkHeader(-1))) => Result = Ok(BulkString(None))
    /\ (Done /\ StartsWith(Input, BulkHeader(0)) /\ Len(Input) >= Len(BulkHeader(0)) + 2)
         => Result = Ok(BulkString(Some(<<>>)))
    /\ (Done /\ StartsWith(Input, ArrayHeader(-1))) => Result = Ok(Array(None))
    /\ (Done /\ StartsWith(Input, ArrayHeader(0))) => Result = Ok(Array(Some(<<>>)))
    /\ BulkString(None) # BulkString(Some(<<>>))
    /\ Array(None) # Array(Some(<<>>))

\* A null bulk string header has been parsed.
C11_Witness == Done /\ StartsWith(Input, BulkHeader(-1)) /\ Result = Ok(BulkString(None))

\* The declared lengths the inputs reach.
Lengths == 0..2

\* C12: a bulk string of declared length N >= 0 consumes exactly N payload
\* bytes and 2 terminator bytes after the header line, whatever the payload
\* holds; the payload is returned unchanged and the next frame starts right
\* after the terminator.
C12_BulkReadsExactlyN ==
    \A N \in Lengths :
      LET h == Len(BulkHeader(N)) IN
        (Done /\ StartsWith(Input, BulkHeader(N)) /\ Len(Input) >= h + N + 2) =>
          /\ Result = Ok(BulkString(Some(SubSeq(Input, h + 1, h + N))))
          /\ reader = SubSeq(Input, h + N + 3, Len(Input))

\* A payload holding CR LF has been read, and bytes follow its terminator.
C12_Witness ==
    /\ Done /\ StartsWith(Input, BulkHeader(2) \o CRLF \o CRLF)
    /\ Result = Ok(BulkString(Some(CRLF)))
    /\ Len(reader) > 0

\* C13: the two bytes after the N payload bytes must be CR LF; with any
\* other two bytes parse fails instead of returning the bulk string.
C13_TerminatorRequired ==
    \A N \in Lengths :
      LET h == Len(BulkHeader(N)) IN
        (/\ Done /\ StartsWith(Input, BulkHeader(N)) /\ Len(Input) >= h + N + 2
         /\ SubSeq(Input, h + N + 1, h + N + 2) # CRLF)
          => ~Result.ok

\* C14: a bulk header declaring more than string_max_length fails with
\* ValueTooLong before any payload byte is read.
C14_OversizeIsValueTooLong ==
    LET hdr == BulkHeader(StringMaxLength + 1) IN
      (Done /\ StartsWith(Input, hdr)) =>
        /\ Result = Err("ValueTooLong")
        /\ reader = SubSeq(Input, Len(hdr) + 1, Len(Input))

\* The result is an error value returned to the caller.
TypedError(r) == ~r.ok /\ "e" \in DOMAIN r

\* C15: a malformed length in a bulk or array header, every negative value
\* other than -1 included, makes parse return a typed error: it never
\* crashes and never returns a frame.
C15_MalformedLengthIsTypedError ==
    (Done /\ Input[1] \in {"$", "*"}) =>
      LET n == ParseI64(TrimEnd(Tail(ReadLine(Input).line))) IN
        (~n.ok \/ n.v < -1) => TypedError(Result)

\* The sub-frames of an array of n items read from bytes, one parse after
\* the other, up to the first that fails.
SubFrames(bytes, n) ==
    LET Sub[i \in 0..n] ==
          IF i = 0 THEN [ok |-> TRUE, rest |-> bytes, items |-> <<>>]
          ELSE IF ~Sub[i - 1].ok THEN Sub[i - 1]
          ELSE LET r == Parse(Sub[i - 1].rest) IN
                 [ok |-> r.res.ok, rest |-> r.rest,
                  items |-> IF r.res.ok THEN Append(Sub[i - 1].items, r.res.v)
                            ELSE Sub[i - 1].items]
    IN  Sub[n]

\* C16: an array of declared count N >= 0 is returned with exactly N
\* sub-frames in input order; when the input ends or a sub-frame is
\* malformed before N are read, parse returns an error, never a shorter array.
C16_ArrayHasExactlyN ==
    \A N \in Lengths :
      (Done /\ StartsWith(Input, ArrayHeader(N))) =>
        LET sub == SubFrames(SubSeq(Input, Len(ArrayHeader(N)) + 1, Len(Input)), N) IN
          IF sub.ok
            THEN /\ Result = Ok(Array(Some(sub.items)))
                 /\ Len(sub.items) = N
                 /\ reader = sub.rest
            ELSE TypedError(Result)

\* C17: parse removes only the terminal CRLF of a line: the content of a
\* simple string is the rest of the line verbatim, trailing spaces kept, and
\* a line ended by a bare LF is not accepted.
C17_BitExact ==
    (Done /\ Input[1] = "+") =>
      LET line == ReadLine(Input).line
          n == Len(line)
      IN  IF n >= 3 /\ SubSeq(line, n - 1, n) = CRLF
            THEN Result = Ok(SimpleString(SubSeq(line, 2, n - 2)))
          ELSE ~Result.ok

(***************************************************************************)
(* command::registry: the pending queue, its drain into the registry, and  *)
(* a lookup through the registry's RwLock.                                 *)
(***************************************************************************)
\* At most MaxEnqueues calls of en_register_queue.
MaxEnqueues == 2

Names == {<<"g", "e", "t">>, <<"G", "e", "t">>, <<"s", "e", "t">>}
Handlers == {"h1", "h2"}

\* An insert that keeps the entry a name already has.
RegistryInsertIfAbsent(map, cmd, handler) ==
    IF cmd \in DOMAIN map THEN map ELSE MapInsert(map, cmd, handler)

\* map.insert(cmd, handler).
RegistryInsert(map, cmd, handler) == MapInsert(map, cmd, handler)

\* en_register_queue(cmd, handler): push under the queue's mutex.
EnRegisterQueue ==
    /\ Len(history) < MaxEnqueues
    /\ \E cmd \in Names, handler \in Handlers :
         /\ pending' = Append(pending, <<ToUpper(cmd), handler>>)
         /\ history' = Append(history, <<cmd, handler>>)
    /\ UNCHANGED <<registry, regWriter, regReaders, drainers, looker,
                   dbVars, parserVars, wireVars, connVars, objVars, cfgVars>>

\* do_register: `std::mem::take(&mut *locked)` under the queue's mutex.
DoRegisterTake(d) ==
    /\ drainers[d].pc = "idle"
    /\ drainers' = [drainers EXCEPT ![d] =
                      [pc |-> "taken", futures |-> pending, start |-> Len(history)]]
    /\ pending' = <<>>
    /\ UNCHANGED <<registry, regWriter, regReaders, looker, history,
                   dbVars, parserVars, wireVars, connVars, objVars, cfgVars>>

\* do_register: `COMMAND_REGISTRY.write().await`.
DoRegisterLock(d) ==
    /\ drainers[d].pc = "taken"
    /\ regWriter = None /\ regReaders = {}
    /\ regWriter' = Some(d)
    /\ drainers' = [drainers EXCEPT ![d].pc = "locked"]
    /\ UNCHANGED <<registry, pending, regReaders, looker, history,
                   dbVars, parserVars, wireVars, connVars, objVars, cfgVars>>

\* do_register: one turn of `for (cmd, handler) in futures`.
DoRegisterInsert(d) ==
    /\ drainers[d].pc = "locked" /\ drainers[d].futures # <<>>
    /\ registry' = RegistryInsert(registry, Head(drainers[d].futures)[1],
                                  Head(drainers[d].futures)[2])
    /\ drainers' = [drainers EXCEPT ![d].futures = Tail(@)]
    /\ UNCHANGED <<pending, regWriter, regReaders, looker, history,
                   dbVars, parserVars, wireVars, connVars, objVars, cfgVars>>

\* do_register returns: the write guard is dropped.
DoRegisterReturn(d) ==
    /\ drainers[d].pc = "locked" /\ drainers[d].futures = <<>>
    /\ regWriter' = None
    /\ drainers' = [drainers EXCEPT ![d].pc = "done"]
    /\ UNCHANGED <<registry, pending, regReaders, looker, history,
                   dbVars, parserVars, wireVars, connVars, objVars, cfgVars>>

\* A lookup: `COMMAND_REGISTRY.read().await`.
LookupLock ==
    /\ looker.pc = "idle"
    /\ regWriter = None
    /\ \E name \in Names :
         looker' = [looker EXCEPT !.pc = "reading", !.name = name, !.seen = Len(history)]
    /\ regReaders' = regReaders \cup {"l"}
    /\ UNCHANGED <<registry, pending, regWriter, drainers, history,
                   dbVars, parserVars, wireVars, connVars, objVars, cfgVars>>

\* A lookup: get the handler of the upper-cased name, drop the read guard.
LookupGet ==
    /\ looker.pc = "reading"
    /\ looker' = [looker EXCEPT !.pc = "done", !.res = MapGet(registry, ToUpper(looker.name))]
    /\ regReaders' = regReaders \ {"l"}
    /\ UNCHANGED <<registry, pending, regWriter, drainers, history,
                   dbVars, parserVars, wireVars, connVars, objVars, cfgVars>>

RegStep ==
    \/ EnRegisterQueue
    \/ \E d \in Drainers :
         DoRegisterTake(d) \/ DoRegisterLock(d) \/ DoRegisterInsert(d) \/ DoRegisterReturn(d)
    \/ LookupLock
    \/ LookupGet

RegSpec == Init /\ [][RegStep]_vars

(***************************************************************************)
(* Claims about the registry.                                              *)
(***************************************************************************)
\* Two names are the same but for the case of their letters.
SameNameIgnoringCase(a, b) ==
    /\ Len(a) = Len(b)
    /\ \A i \in 1..Len(a) :
         \/ a[i] = b[i]
         \/ \E j \in 1..26 : {a[i], b[i]} = {Lowers[j], Uppers[j]}

\* The upper-cased form of a name holds no lower-case letter.
IsUpperOf(k, name) ==
    /\ SameNameIgnoringCase(k, name)
    /\ \A i \in 1..Len(k) : \A j \in 1..26 : k[i] # Lowers[j]

\* The last pair enqueued under a name, case ignored.
LastEnqueued(name) ==
    LET idx == {i \in 1..Len(history) : SameNameIgnoringCase(history[i][1], name)}
    IN  history[CHOOSE i \in idx : \A j \in idx : j <= i]

\* Call d of do_register is the only one made, it came after every
\* en_register_queue call, and it has returned.
DrainedOnce(d) ==
    /\ drainers[d].pc = "done" /\ drainers[d].start = Len(history)
    /\ \A e \in Drainers \ {d} : drainers[e].pc = "idle"

\* C18: after any sequence of en_register_queue calls followed by
\* do_register, the registry maps each upper-cased name to the handler of the
\* last pair enqueued with that name (case ignored), holds no other entry,
\* and the pending queue is empty.
C18_DrainLastWins ==
    \A d \in Drainers :
      DrainedOnce(d) =>
        /\ \A i \in 1..Len(history) :
             \E k \in DOMAIN registry :
               /\ IsUpperOf(k, history[i][1])
               /\ registry[k] = LastEnqueued(history[i][1])[2]
        /\ \A k \in DOMAIN registry :
             \E i \in 1..Len(history) : IsUpperOf(k, history[i][1])
        /\ pending = <<>>

\* One drain has followed two registrations of one name, written in
\* different case and with different handlers.
C18_Witness ==
    /\ \E d \in Drainers : DrainedOnce(d)
    /\ Len(history) = 2
    /\ history[1][1] # history[2][1]
    /\ SameNameIgnoringCase(history[1][1], history[2][1])
    /\ history[1][2] # history[2][2]

C20_RegistryFrozenAfterDrain ==
    [][(\E d \in Drainers : drainers[d].pc = "done") => registry' = registry]_vars

(***************************************************************************)
(* The server of main.rs: one task per accepted connection runs            *)
(* handle_socket over the shared Storage; a cleaner task drops expired     *)
(* entries. A command is the vector of strings resp::parse_resp returns;   *)
(* a reply is the text written to the socket.                              *)
(***************************************************************************)
\* The peer has at most MaxInbox requests under way on a connection.
MaxInbox == 1

\* What resp::parse_resp makes of the bytes of one read: an error, or the
\* command's words.
Requests == <<
    Err("parse"),
    Ok(<< <<"P","I","N","G">> >>),
    Ok(<< <<"e","c","h","o">>, <<"k">> >>),
    Ok(<< <<"S","E","T">>, <<"k">>, <<"v">> >>),
    Ok(<< <<"g","e","t">>, <<"k">> >>),
    Ok(<< <<"G","E","T">> >>),
    Ok(<< <<"D","E","L">>, <<"k">> >>),
    Ok(<< <<"E","X","P","I","R","E">>, <<"k">>, <<"0">> >>),
    Ok(<< <<"E","X","P","I","R","E">>, <<"k">>, <<"x">> >>),
    Ok(<< <<"T","T","L">>, <<"k">> >>),
    Ok(<< <<"F","O","O">>, <<"k">> >>) >>

\* format!("{:#?}", words) of a slice of strings (none of the model's words
\* holds a character that Debug escapes).
RECURSIVE DebugItems(_)
DebugItems(words) ==
    IF Len(words) = 0 THEN <<>>
    ELSE <<" "," "," "," ","\"">> \o Head(words) \o <<"\"",",","\n">>
           \o DebugItems(Tail(words))

DebugPretty(words) ==
    IF Len(words) = 0 THEN <<"[","]">>
    ELSE <<"[","\n">> \o DebugItems(words) \o <<"]">>

\* The reply texts handle_socket writes.
ReplyInvalidCommand == <<"-","E","R","R"," ","I","n","v","a","l","i","d"," ",
                         "c","o","m","m","a","n","d">> \o CRLF
ReplyUnknownCommand == <<"-","E","R","R"," ","U","n","k","n","o","w","n"," ",
                         "c","o","m","m","a","n","d">> \o CRLF
ReplyInvalidInteger == <<"-","E","R","R"," ","I","n","v","a","l","i","d"," ",
                         "i","n","t","e","g","e","r">> \o CRLF
ReplyPong == <<"+","P","O","N","G">> \o CRLF
ReplyOk == <<"+","O","K">> \o CRLF
ReplyNullBulk == <<"$","-","1">> \o CRLF

\* ValueEntry { value, expiry }.
ValueEntry(v, e) == [value |-> v, expiry |-> e]

\* Instant::saturating_duration_since(now).as_secs().
SaturatingSince(e, t) == IF e > t THEN e - t ELSE 0

\* What a served command leaves: the reply written, the storage, and whether
\* the function ran to its end or returned from inside the match.
Served(text, st, why) == [text |-> text, st |-> st, why |-> why]

\* The `match commands[0].to_uppercase().as_str()` of handle_socket at
\* instant t over storage st.
Dispatch(words, st, t) ==
    LET name == ToUpper(words[1])
        n == Len(words)
    IN  IF name = <<"P","I","N","G">> THEN Served(ReplyPong, st, "end")
        ELSE IF name = <<"E","C","H","O">> /\ n > 1
          THEN Served(<<"+">> \o DebugPretty(Tail(words)) \o CRLF, st, "end")
        ELSE IF name = <<"S","E","T">> /\ n >= 3
          THEN Served(ReplyOk, MapInsert(st, words[2], ValueEntry(words[3], None)), "end")
        ELSE IF name = <<"G","E","T">> /\ n > 1
          THEN IF words[2] \in DOMAIN st
                 THEN Served(<<"+">> \o st[words[2]].value \o CRLF, st, "end")
                 ELSE Served(ReplyNullBulk, st, "end")
        ELSE IF name = <<"D","E","L">> /\ n > 1
          THEN Served(<<":">> \o FormatInt(IF words[2] \in DOMAIN st THEN 1 ELSE 0) \o CRLF,
                      MapRemove(st, words[2]), "end")
        ELSE IF name = <<"E","X","P","I","R","E">> /\ n >= 3
          THEN LET seconds == ParseU64(words[3]) IN
                 IF ~seconds.ok THEN Served(ReplyInvalidInteger, st, "return")
                 ELSE IF words[2] \in DOMAIN st
                   THEN Served(<<":","1">> \o CRLF,
                               [st EXCEPT ![words[2]].expiry = Some(t + seconds.v)], "end")
                   ELSE Served(<<":","0">> \o CRLF, st, "end")
        ELSE IF name = <<"T","T","L">> /\ n > 1
          THEN IF words[2] \notin DOMAIN st THEN Served(<<":","-","2">> \o CRLF, st, "end")
               ELSE IF IsSome(st[words[2]].expiry)
                 THEN Served(<<":">> \o FormatInt(SaturatingSince(Unwrap(st[words[2]].expiry), t))
                               \o CRLF, st, "end")
               ELSE Served(<<":","-","1">> \o CRLF, st, "end")
        ELSE Served(ReplyUnknownCommand, st, "end")

\* listener.accept() and tokio::spawn(handle_socket(socket, storage)).
Accept(c) ==
    /\ socket[c].state = "none"
    /\ socket' = [socket EXCEPT ![c].state = "open"]
    /\ UNCHANGED <<storage, dbVars, parserVars, wireVars, regVars, objVars, cfgVars>>

\* The peer sends the bytes of one request on a connection it holds open.
ClientSend(c) ==
    /\ socket[c].state = "open" /\ socket[c].peer = "open"
    /\ Len(socket[c].inbox) < MaxInbox
    /\ \E j \in 1..Len(Requests) :
         socket' = [socket EXCEPT ![c].inbox = Append(@, Requests[j])]
    /\ UNCHANGED <<storage, dbVars, parserVars, wireVars, regVars, objVars, cfgVars>>

\* The peer closes its side: once the bytes sent are read, a read returns 0.
ClientClose(c) ==
    /\ socket[c].state = "open" /\ socket[c].peer = "open"
    /\ socket' = [socket EXCEPT ![c].peer = "shut"]
    /\ UNCHANGED <<storage, dbVars, parserVars, wireVars, regVars, objVars, cfgVars>>

\* The function has returned: the socket is dropped, and with it whatever the
\* peer sent that was not read.
Dropped(s, why) == [s EXCEPT !.state = "closed", !.inbox = <<>>, !.cause = why]

\* handle_socket, from its one `socket.read` to its return. `cause` keeps
\* why it returned: "eof" (read gave 0), "ioerr" (read failed), "parse_error",
\* "return" (the `return` inside the EXPIRE arm) or "end" (the end of the
\* function, after the match).
HandleSocket(c) ==
    /\ socket[c].state = "open"
    /\ \/ /\ socket[c].inbox = <<>> /\ socket[c].peer = "shut"
          /\ socket' = [socket EXCEPT ![c] = Dropped(@, "eof")]
          /\ storage' = storage
       \/ /\ socket[c].inbox = <<>>
          /\ socket' = [socket EXCEPT ![c] = Dropped(@, "ioerr")]
          /\ storage' = storage
       \/ /\ socket[c].inbox # <<>>
          /\ LET r == Head(socket[c].inbox) IN
               IF ~r.ok
                 THEN /\ socket' = [socket EXCEPT ![c] =
                            Dropped([@ EXCEPT !.req = Some(r),
                                              !.sent = Append(@, ReplyInvalidCommand)],
                                    "parse_error")]
                      /\ storage' = storage
                 ELSE LET d == Dispatch(r.v, storage, now) IN
                      /\ socket' = [socket EXCEPT ![c] =
                            Dropped([@ EXCEPT !.req = Some(r),
                                              !.sent = Append(@, d.text)],
                                    d.why)]
                      /\ storage' = d.st
    /\ UNCHANGED <<dbVars, parserVars, wireVars, regVars, objVars, cfgVars>>

\* The cleaner task's `storage.retain(..)`: entries whose expiry is not after
\* the current instant are dropped.
Retain(st, t) ==
    [k \in {x \in DOMAIN st : IsSome(st[x].expiry) => Unwrap(st[x].expiry) > t} |-> st[k]]

Cleaner ==
    /\ storage' = Retain(storage, now)
    /\ UNCHANGED <<socket, dbVars, parserVars, wireVars, regVars, objVars, cfgVars>>

ConnNext ==
    \/ Tick
    \/ Cleaner
    \/ \E c \in Conns : Accept(c) \/ ClientSend(c) \/ ClientClose(c) \/ HandleSocket(c)

ConnSpec == Init /\ [][ConnNext]_vars

(***************************************************************************)
(* Claims about the connection handler.                                    *)
(***************************************************************************)
\* The words of the request handle_socket read on connection c last.
Parsed1(c) == IsSome(socket[c].req) /\ Unwrap(socket[c].req).ok
WordsOf(c) == Unwrap(socket[c].req).v
LastSent(c) == socket[c].sent[Len(socket[c].sent)]

\* C21 (as claimed; ConnSpec): the handler of a connection stops only when a
\* read reports the end of the stream or fails; after a request, whatever
\* its reply (an error reply included), it goes on to read the next one, so
\* a connection is never closed by the handler for any other cause.
C21_ErrorReplyKeepsConnection ==
    \A c \in Conns :
      socket[c].state = "closed" => socket[c].cause \in {"eof", "ioerr"}

\* The commands the match of handle_socket names.
KnownCommands == { <<"P","I","N","G">>, <<"E","C","H","O">>, <<"S","E","T">>,
                   <<"G","E","T">>, <<"D","E","L">>, <<"E","X","P","I","R","E">>,
                   <<"T","T","L">> }

\* The text holds the word, in the letter case given or in upper case.
Contains(text, w) ==
    \E i \in 1..(Len(text) - Len(w) + 1) :
       SubSeq(text, i, i + Len(w) - 1) \in {w, ToUpper(w)}

\* C22 (as claimed; ConnSpec): a request whose first word names no known
\* command is answered with an error reply whose text contains that word.
C22_UnknownCommandNamed ==
    \A c \in Conns :
      (Parsed1(c) /\ ToUpper(WordsOf(c)[1]) \notin KnownCommands) =>
         /\ socket[c].sent # <<>>
         /\ LastSent(c)[1] = "-"
         /\ Contains(LastSent(c), WordsOf(c)[1])

(***************************************************************************)
(* Stored objects: RedisObject over the sds encodings EmbStr and Raw.      *)
(* "x00" is the zero byte.                                                 *)
(***************************************************************************)
EMB_LEN == 54

Min(a, b) == IF a < b THEN a ELSE b

\* impl From<Vec<u8>> for EmbStr: the first EMB_LEN bytes, zero-padded.
EmbStrFrom(value) ==
    LET len == Min(Len(value), EMB_LEN) IN
      [len |-> len, buf |-> [i \in 1..EMB_LEN |-> IF i <= len THEN value[i] ELSE "x00"]]

\* A conversion that hands back the whole buffer, padding included.
EmbStrIntoWholeBuf(es) == es.buf

\* impl Into<Vec<u8>> for EmbStr.
EmbStrInto(es) == SubSeq(es.buf, 1, es.len)

\* impl From<Vec<u8>> for Raw and impl Into<Vec<u8>> for Raw.
RawFrom(buf) == [buf |-> buf]
RawInto(raw) == raw.buf

\* RedisValue, by variant.
IntValue(i) == [kind |-> "Int", int |-> i]
EmbStrValue(es) == [kind |-> "EmbStr", emb |-> es]
RawValue(raw) == [kind |-> "Raw", raw |-> raw]
OtherValue(kind) == [kind |-> kind]

\* RedisObject { header, ptr }: of the header only the type tag matters (lru
\* and ref_count stay as ObjectHeader::new() leaves them).
RedisObject(ty, ptr) == [obj_type |-> ty, ptr |-> ptr]

ObjectTypes == {"String", "List", "Hash", "Set", "Zset"}

\* A constructor that takes the heap encoding already at EMB_LEN bytes.
NewStringBelowEmbLen(buf) ==
    IF Len(buf) < EMB_LEN
      THEN RedisObject("String", EmbStrValue(EmbStrFrom(buf)))
      ELSE RedisObject("String", RawValue(RawFrom(buf)))

\* RedisObject::new_string(buf).
NewString(buf) ==
    IF Len(buf) <= EMB_LEN
      THEN RedisObject("String", EmbStrValue(EmbStrFrom(buf)))
      ELSE RedisObject("String", RawValue(RawFrom(buf)))

NotImplemented == <<"N","o","t"," ","I","m","p","l","e","m","e","n","t","e","d">>

\* A conversion that answers every String-tagged object with a bulk string
\* (an empty one where the value is no string encoding).
ObjectIntoAlwaysBulk(o) ==
    IF o.obj_type = "String"
      THEN IF o.ptr.kind = "Int" THEN BulkString(Some(FormatInt(o.ptr.int)))
           ELSE IF o.ptr.kind = "EmbStr" THEN BulkString(Some(EmbStrInto(o.ptr.emb)))
           ELSE IF o.ptr.kind = "Raw" THEN BulkString(Some(RawInto(o.ptr.raw)))
           ELSE BulkString(Some(<<>>))
      ELSE ErrorFrame(NotImplemented)

\* impl Into<RespValue> for RedisObject.
ObjectInto(o) ==
    IF o.obj_type = "String"
      THEN IF o.ptr.kind = "Int" THEN BulkString(Some(FormatInt(o.ptr.int)))
           ELSE IF o.ptr.kind = "EmbStr" THEN BulkString(Some(EmbStrInto(o.ptr.emb)))
           ELSE IF o.ptr.kind = "Raw" THEN BulkString(Some(RawInto(o.ptr.raw)))
           ELSE Null
      ELSE ErrorFrame(NotImplemented)

(***************************************************************************)
(* GETRANGE.                                                               *)
(***************************************************************************)
\* i64::clamp(min, max).
Clamp(x, lo, hi) == IF x < lo THEN lo ELSE IF x > hi THEN hi ELSE x

\* The closure to_pos of get_range.
ToPos(len, index) == IF index < 0 THEN len + index ELSE index

\* Range<usize>: start..end, end excluded.
Range(s, e) == [start |-> s, end |-> e]

\* A get_range that returns the range without its last byte (start..end).
GetRangeEndExcluded(len, start, end) ==
    IF len = 0 \/ start > len \/ (start < 0 /\ end < 0 /\ start > end) THEN None
    ELSE LET s == Clamp(ToPos(len, start), 0, len - 1)
             e == Clamp(ToPos(len, end), 0, len - 1)
         IN  IF s <= e THEN Some(Range(s, e)) ELSE None

\* get_range(len, start, end).
GetRange(len, start, end) ==
    IF len = 0 \/ start > len \/ (start < 0 /\ end < 0 /\ start > end) THEN None
    ELSE LET s == Clamp(ToPos(len, start), 0, len - 1)
             e == Clamp(ToPos(len, end), 0, len - 1)
         IN  IF s <= e THEN Some(Range(s, e + 1)) ELSE None

\* i64::to_be_bytes, for the integers of the model (-9..9).
LowBytes == <<"x01","x02","x03","x04","x05","x06","x07","x08","x09">>
HighBytes == <<"xFF","xFE","xFD","xFC","xFB","xFA","xF9","xF8","xF7">>
ToBeBytes(i) ==
    IF i = 0 THEN [j \in 1..8 |-> "x00"]
    ELSE IF i > 0 THEN [j \in 1..7 |-> "x00"] \o <<LowBytes[i]>>
    ELSE [j \in 1..7 |-> "xFF"] \o <<HighBytes[0 - i]>>

\* `bytes[range].to_vec()`.
Slice(bytes, r) == SubSeq(bytes, r.start + 1, r.end)

\* GetRangeCommand::execute on what db.get(&self.key) found.
GetRangeExecute(found, start, end) ==
    IF ~IsSome(found) THEN Ok(BulkString(None))
    ELSE LET o == Unwrap(found) IN
      IF o.obj_type # "String" THEN Err("WrongType")
      ELSE LET bytes == IF o.ptr.kind = "Int" THEN ToBeBytes(o.ptr.int)
                        ELSE IF o.ptr.kind = "EmbStr" THEN EmbStrInto(o.ptr.emb)
                        ELSE IF o.ptr.kind = "Raw" THEN RawInto(o.ptr.raw)
                        ELSE <<>>
               range == GetRange(Len(bytes), start, end)
           IN  IF IsSome(range) THEN Ok(BulkString(Some(Slice(bytes, Unwrap(range)))))
               ELSE Ok(BulkString(None))

(***************************************************************************)
(* Calls of the functions on objects, on arguments from bounded sets.      *)
(***************************************************************************)
\* Values handed to GETRANGE have at most MaxLen bytes; indices run a little
\* past both ends.
MaxLen == 5
Indices == (0 - (MaxLen + 2))..(MaxLen + 2)

\* A payload of n bytes: the alphabet, repeated.
Payload(n) == [i \in 1..n |-> Lowers[((i - 1) % 26) + 1]]

\* The payload lengths tried on new_string, around the EMB_LEN boundary.
Lens == {0, 1, EMB_LEN - 1, EMB_LEN, EMB_LEN + 1, EMB_LEN + 2}

Ints == {0 - 5, 0, 7}

\* Every pairing of a type tag with a value, as the public fields allow.
Objects ==
    {RedisObject(ty, v) :
       ty \in ObjectTypes,
       v \in {IntValue(i) : i \in Ints}
             \cup {EmbStrValue(EmbStrFrom(Payload(n))) : n \in {0, 3, EMB_LEN}}
             \cup {RawValue(RawFrom(Payload(n))) : n \in {EMB_LEN + 1}}
             \cup {OtherValue(k) : k \in {"HashTable", "LinkedList", "ZipList",
                                          "IntSet", "SkipList"}}}

\* What db.get may find for GETRANGE: nothing, a string of up to MaxLen
\* bytes, an integer, or a list.
Founds ==
    {None} \cup {Some(NewString(Payload(n))) : n \in 0..MaxLen}
           \cup {Some(RedisObject("String", IntValue(7))),
                 Some(RedisObject("List", OtherValue("LinkedList")))}

NewStringCall ==
    /\ call.fn = "none"
    /\ \E n \in Lens :
         /\ call' = [fn |-> "new_string", buf |-> Payload(n)]
         /\ out' = Some(NewString(Payload(n)))
    /\ UNCHANGED <<dbVars, parserVars, wireVars, regVars, connVars, cfgVars>>

\* The conversion to a frame, of any object or of the one new_string built.
ObjectIntoCall ==
    /\ \/ /\ call.fn = "none"
          /\ \E o \in Objects :
               /\ call' = [fn |-> "into", obj |-> o, made |-> None]
               /\ out' = Some(ObjectInto(o))
       \/ /\ call.fn = "new_string"
          /\ call' = [fn |-> "into", obj |-> Unwrap(out), made |-> Some(call.buf)]
          /\ out' = Some(ObjectInto(Unwrap(out)))
    /\ UNCHANGED <<dbVars, parserVars, wireVars, regVars, connVars, cfgVars>>

GetRangeCall ==
    /\ call.fn = "none"
    /\ \E len \in 0..MaxLen, s \in Indices, e \in Indices :
         /\ call' = [fn |-> "get_range", len |-> len, start |-> s, end |-> e]
         /\ out' = Some(GetRange(len, s, e))
    /\ UNCHANGED <<dbVars, parserVars, wireVars, regVars, connVars, cfgVars>>

GetRangeExecuteCall ==
    /\ call.fn = "none"
    /\ \E f \in Founds, s \in Indices, e \in Indices :
         /\ call' = [fn |-> "getrange", found |-> f, start |-> s, end |-> e]
         /\ out' = Some(GetRangeExecute(f, s, e))
    /\ UNCHANGED <<dbVars, parserVars, wireVars, regVars, connVars, cfgVars>>

ObjNext == NewStringCall \/ ObjectIntoCall \/ GetRangeCall \/ GetRangeExecuteCall

ObjSpec == Init /\ [][ObjNext]_vars

(***************************************************************************)
(* Claims about GETRANGE and the stored objects.                           *)
(***************************************************************************)
\* GETRANGE found a string held in the inline encoding.
FoundInline == call.fn = "getrange" /\ IsSome(call.found)
                 /\ Unwrap(call.found).obj_type = "String"
                 /\ Unwrap(call.found).ptr.kind = "EmbStr"

\* C25 (as claimed; ObjSpec): with start at or past the end of the value
\* (start >= its length), get_range selects nothing and GETRANGE replies the
\* null bulk string.
C25_StartAtEndSelectsNothing ==
    /\ (call.fn = "get_range" /\ call.start >= call.len) => out = Some(None)
    /\ (FoundInline /\ call.start >= Unwrap(call.found).ptr.emb.len)
          => out = Some(Ok(BulkString(None)))

\* An index as the claim resolves it: a negative one counts from the end,
\* and what falls outside the value is moved to its first or last byte.
Resolved(len, i) ==
    LET p == IF i < 0 THEN len + i ELSE i IN
      IF p < 0 THEN 0 ELSE IF p > len - 1 THEN len - 1 ELSE p

\* C26 as stated: for len > 0, get_range resolves and clamps both indices
\* and returns start..end+1, never empty and never beyond len, exactly when
\* the resolved start is not after the resolved end, and nothing otherwise.
C26_ResolveClampInclusive ==
    (call.fn = "get_range" /\ call.len > 0) =>
      LET s == Resolved(call.len, call.start)
          e == Resolved(call.len, call.end)
      IN  IF s <= e
            THEN out = Some(Some([start |-> s, end |-> e + 1])) /\ e + 1 <= call.len
            ELSE out = Some(None)

\* get_range gives up before resolving anything.
EarlyNone(len, start, end) == start > len \/ (start < 0 /\ end < 0 /\ start > end)

\* C26: for len > 0, get_range returns nothing when start > len or when both
\* indices are negative and start > end; otherwise it resolves and clamps
\* both indices and returns start..end+1, never empty and never beyond len,
\* when the resolved start is not after the resolved end, and nothing
\* otherwise; start = 0, end = -1 selects the whole value.
C26_EarlyNoneElseResolveClamp ==
    (call.fn = "get_range" /\ call.len > 0) =>
      LET s == Resolved(call.len, call.start)
          e == Resolved(call.len, call.end)
      IN  /\ IF EarlyNone(call.len, call.start, call.end) THEN out = Some(None)
             ELSE IF s <= e
               THEN /\ out = Some(Some([start |-> s, end |-> e + 1]))
                    /\ s < e + 1 /\ e + 1 <= call.len
             ELSE out = Some(None)
          /\ (call.start = 0 /\ call.end = 0 - 1)
                => out = Some(Some([start |-> 0, end |-> call.len]))

\* get_range(4, 5, 6): a start past the value with an end past it too gives
\* nothing, where clamping both would have selected the last byte.
C26_Witness ==
    /\ call.fn = "get_range" /\ call.len = 4 /\ call.start = 5 /\ call.end = 6
    /\ out = Some(None)

\* C27 (ObjSpec): new_string(b) builds an object tagged String, in the inline
\* encoding exactly when b has at most 54 bytes and in the heap encoding
\* otherwise; converted back, the object yields exactly the bytes of b.
C27_NewStringEncodingRoundTrip ==
    /\ call.fn = "new_string" =>
         /\ Unwrap(out).obj_type = "String"
         /\ Unwrap(out).ptr.kind = IF Len(call.buf) <= 54 THEN "EmbStr" ELSE "Raw"
    /\ (call.fn = "into" /\ IsSome(call.made)) =>
         /\ call.obj.ptr.kind = IF Len(Unwrap(call.made)) <= 54 THEN "EmbStr" ELSE "Raw"
         /\ out = Some(BulkString(Some(Unwrap(call.made))))

\* An object built from exactly 54 bytes, inline, has been converted back.
C27_Witness ==
    /\ call.fn = "into" /\ IsSome(call.made)
    /\ Len(Unwrap(call.made)) = 54
    /\ call.obj.ptr.kind = "EmbStr"
    /\ Unwrap(out).t = "BulkString"

\* The bytes a string encoding holds, and the frame of a String object whose
\* value is an integer or a string encoding.
HeldBytes(v) == IF v.kind = "EmbStr" THEN SubSeq(v.emb.buf, 1, v.emb.len) ELSE v.raw.buf
StringFrame(v) == IF v.kind = "Int" THEN BulkString(Some(FormatInt(v.int)))
                  ELSE BulkString(Some(HeldBytes(v)))

CmdVals == {<<"v">>, Payload(EMB_LEN), Payload(EMB_LEN + 1)}

\* A command arrives at its handler: GetCommand::execute / SetCommand::execute
\* (the latter hands `RedisObject::new_string(self.value)` and no ttl to
\* Database::set).
CmdBegin(p) ==
    /\ procs[p].pc = "idle"
    /\ \E k \in Keys :
         \/ Upd(p, [Idle EXCEPT !.pc = "lock", !.cmd = "GET", !.op = "get", !.key = k])
         \/ \E v \in CmdVals :
              Upd(p, [Idle EXCEPT !.pc = "lock", !.cmd = "SET", !.op = "set",
                                  !.key = k, !.val = NewString(v), !.arg = v])
    /\ UNCHANGED <<data, expires, now, shardOf, guards, lockW, lockR, parserVars, wireVars, regVars, connVars, objVars, cfgVars>>

\* GetCommand::execute: `if let Some(o) = db.get(..) { Ok(o.into()) } else
\* { Ok(RespValue::Null) }`.
GetExecuteReply(found) == IF IsSome(found) THEN ObjectInto(Unwrap(found)) ELSE Null

\* SetCommand::execute: `Ok(RespValue::Boolean(true))`.
SetExecuteReply == Boolean(TRUE)

\* GetSetCommand::execute: `Ok(origin_val.into())` when db.get found the key,
\* else `Ok(RespValue::Null)`; either way after db.set.
GetSetExecuteReply(origin) == IF IsSome(origin) THEN ObjectInto(Unwrap(origin)) ELSE Null

\* The handler returns its reply; its RwLock guard (and a Ref still held) is
\* dropped with it. (GETSET returns after its db.set, not after its db.get.)
CmdReply(p) ==
    /\ procs[p].pc \in {"ret", "ret_none"}
    /\ procs[p].cmd # "none"
    /\ ~(procs[p].cmd = "GETSET" /\ procs[p].op = "get")
    /\ guards' = guards \ {p}
    /\ lockW' = lockW \ {p}
    /\ lockR' = lockR \ {p}
    /\ Upd(p, [procs[p] EXCEPT !.pc = "replied",
                               !.reply = Some(CASE procs[p].cmd = "GET" ->
                                                     GetExecuteReply(procs[p].res)
                                                []   procs[p].cmd = "GETSET" ->
                                                     GetSetExecuteReply(procs[p].old)
                                                []   OTHER -> SetExecuteReply)])
    /\ UNCHANGED <<data, expires, now, shardOf, parserVars, wireVars, regVars, connVars, objVars, cfgVars>>

\* The reply is taken; the connection is ready for its next command.
CmdEnd(p) ==
    /\ procs[p].pc = "replied"
    /\ Upd(p, Idle)
    /\ UNCHANGED <<data, expires, now, shardOf, guards, lockW, lockR, parserVars, wireVars, regVars, connVars, objVars, cfgVars>>

\* The steps of a connection served by the command handlers (no handler
\* passes a ttl, so no expiration record is ever written on this path).
CmdStep(p) ==
    \/ CmdBegin(p)
    \/ LockWrite(p)
    \/ ExpiresGet(p)
    \/ DataGet(p)
    \/ DataInsert(p)
    \/ ExpiresRemove(p)
    \/ CmdReply(p)
    \/ CmdEnd(p)

\* Concurrent connections, each running GET and SET commands.
CmdNext == Tick \/ \E p \in Procs : CmdStep(p)

CmdSpec == Init /\ [][CmdNext]_vars

\* A direct Database::set(key, object, Some(ttl)): the one way an expiration
\* record comes to exist, since no handler passes a ttl.
ApiSetTtl(p) ==
    /\ procs[p].pc = "idle"
    /\ \E k \in Keys, v \in CmdVals, d \in 0..MaxTtl :
         Upd(p, [Idle EXCEPT !.pc = "data_insert", !.op = "set", !.key = k,
                             !.val = NewString(v), !.arg = v, !.ttl = Some(d)])
    /\ UNCHANGED <<data, expires, now, shardOf, guards, lockW, lockR, parserVars, wireVars, regVars, connVars, objVars, cfgVars>>

\* One connection running GET and SET commands, one after the other, on a
\* store that also receives entries with a ttl.
HandlerNext ==
    \/ Tick
    \/ ApiSetTtl(SeqProc)
    \/ SetNow(SeqProc)
    \/ ExpiresInsert(SeqProc)
    \/ Return(SeqProc)
    \/ CheckExpired(SeqProc)
    \/ DataRemove(SeqProc)
    \/ CmdStep(SeqProc)

HandlerSpec == Init /\ [][HandlerNext]_vars

(***************************************************************************)
(* Claims about the GET and SET handlers.                                  *)
(***************************************************************************)
\* C23 (as claimed; HandlerSpec): a GET whose key the store does not hold
\* (db.get found nothing: never set, or expired) replies the null bulk
\* string.
C23_GetAbsentRepliesNullBulk ==
    \A p \in Procs :
      LET r == procs[p] IN
        (r.cmd = "GET" /\ r.pc = "replied" /\ r.res = None)
          => r.reply = Some(BulkString(None))

\* C24 (HandlerSpec): when SET k v replies, the reply is boolean true, the
\* store holds the bytes of v under k, and k has no expiration record
\* (whether or not it had one); and a GET k that finds k replies the bytes
\* the store holds under k as a bulk string.
C24_SetStoresAndGetReturns ==
    [][\A p \in Procs :
         LET r == procs[p] IN
           /\ (r.cmd = "SET" /\ r.pc = "ret" /\ procs'[p].pc = "replied") =>
                 /\ procs'[p].reply = Some(Boolean(TRUE))
                 /\ r.key \in DOMAIN data
                 /\ data[r.key].obj_type = "String"
                 /\ HeldBytes(data[r.key].ptr) = r.arg
                 /\ r.key \notin DOMAIN expires
           /\ (r.cmd = "GET" /\ r.pc = "ret" /\ procs'[p].pc = "replied"
                 /\ r.key \in DOMAIN data) =>
                 procs'[p].reply = Some(BulkString(Some(HeldBytes(data[r.key].ptr))))
      ]_vars

\* A SET of a 55-byte value has replied while the other key has an
\* expiration record: the store holds the value and its key has none.
C24_Witness ==
    LET r == procs[SeqProc] IN
      /\ r.cmd = "SET" /\ r.pc = "replied"
      /\ r.reply = Some(Boolean(TRUE))
      /\ HeldBytes(data[r.key].ptr) = Payload(EMB_LEN + 1)
      /\ DOMAIN expires = Keys \ {r.key}

(***************************************************************************)
(* Claims about the option loop and the argument conversions.              *)
(***************************************************************************)
\* The derived command with one positional field, a named option and a flag
\* (the last of Shapes).
OptShape == Len(Shapes)

\* The text of a string-shaped token (a simple string, or a bulk string of
\* valid UTF-8).
IsText(e) == NamesCommand(e)
TextUpper(e) == ToUpper(NameBytes(e))

\* A token that is decimal text, and its value.
IsNumber(e) == IsText(e) /\ NameBytes(e) # <<>>
                 /\ \A i \in 1..Len(NameBytes(e)) : \E d \in 1..10 : Digits[d] = NameBytes(e)[i]
NumberOf(e) == DigitsValue(NameBytes(e))

Unspecified == [ok |-> FALSE, e |-> "unspecified"]

\* The option loop as the claim words it, over the tokens it is left with and
\* the fields <<key, expiration, nx>>: a case the claim is silent about (a
\* token that is no text, an option without a numeric value) is Unspecified.
RECURSIVE Walk(_, _)
Walk(toks, acc) ==
    IF toks = <<>> THEN Ok(acc)
    ELSE IF ~IsText(toks[1]) THEN Unspecified
    ELSE IF TextUpper(toks[1]) \in {<<"E","X">>, <<"P","X">>}
      THEN IF Len(toks) >= 2 /\ IsNumber(toks[2])
             THEN Walk(SubSeq(toks, 3, Len(toks)),
                       [acc EXCEPT ![2] = Some(<<TextUpper(toks[1]), NumberOf(toks[2])>>)])
             ELSE Unspecified
    ELSE IF TextUpper(toks[1]) = <<"N","X">>
      THEN Walk(Tail(toks), [acc EXCEPT ![3] = TRUE])
    ELSE Err("InvalidCommandFormat")

\* The conversion was tried on OptShape and its one positional field took
\* its element (the first one the parser holds).
LoopEntered ==
    /\ Tried /\ Unwrap(reply).shape = OptShape
    /\ Len(Unwrap(request.a)) >= 2
    /\ IsText(Unwrap(request.a)[1])

\* C29 (ParserSpec): in the option loop of a derived command, over the
\* elements left after the positional fields took theirs: each token is
\* upper-cased and matched against the aliases; a named option takes exactly
\* one following value into its optional field, a flag sets its field and
\* takes nothing more, an unrecognized token fails with
\* InvalidCommandFormat, and the conversion succeeds only with every element
\* consumed.
C29_OptionLoop ==
    LoopEntered =>
      LET parts == Unwrap(request.a)
          w == Walk(SubSeq(parts, 2, Len(parts)), <<NameBytes(parts[1]), None, FALSE>>)
      IN  IF w = Unspecified THEN ~Unwrap(reply).res.ok
          ELSE Unwrap(reply).res = w

\* The loop has read a lower-case option name with its value, and then
\* ended: the optional field holds the pair, the flag is unset.
C29_Witness ==
    /\ LoopEntered
    /\ Len(Unwrap(request.a)) = 3
    /\ Unwrap(request.a)[2] = BulkString(Some(<<"e","x">>))
    /\ Unwrap(reply).res.ok
    /\ Unwrap(reply).res.v[2] = Some(<<(<<"E","X">>), 7>>)
    /\ Unwrap(reply).res.v[3] = FALSE

\* The reply of a conversion of one element: by Parser::next or by
\* from_resp_value.
Converted(o) == IsSome(reply) /\ Unwrap(reply).op = o
                  /\ Unwrap(reply).at < Len(Unwrap(request.a))
Elem == Unwrap(request.a)[Unwrap(reply).at + 1]
IsBulk(e) == e.t = "BulkString" /\ IsSome(e.b)
IsBoolText(e) == e.t = "SimpleString"
                   /\ TextUpper(e) \in {<<"T","R","U","E">>, <<"F","A","L","S","E">>}
FormatError(r) == ~r.ok /\ r.e # "WrongType"

ShapeError(o) == IF o = "next" THEN Err("WrongType") ELSE Err("InvalidFormat")

CommandFields == <<"key", "value">>

\* The most arguments a request carries: one more than the handlers take.
MaxArgs == Len(CommandFields) + 1

\* A limit that RUDIS_STRING_MAX_LENGTH can set, small enough to be exceeded.
SmallLimit == 1

\* init_config: string_max_length is the environment's value or the default.
Configs == {[string_max_length |-> n] : n \in {SmallLimit, StringMaxLength}}

\* The arguments of the requests: keys as bulk strings, a value one byte
\* over the small limit, a key that is not UTF-8, a null bulk string and a
\* simple string.
ArgElems ==
    {BulkString(Some(<<k>>)) : k \in Keys} \cup
    {BulkString(Some(Payload(SmallLimit + 1))), BulkString(Some(<<"xFF">>)),
     BulkString(None), SimpleString(<<"a">>)}

\* The String of a key, as the Database's maps are keyed.
StringOf(chars) == CHOOSE k \in Keys : <<k>> = chars

\* The argument vectors: up to MaxArgs arguments, a first argument that is
\* text being the text of one of Keys.
ArgVecs ==
    {v \in UNION {[1..n -> ArgElems] : n \in 0..MaxArgs} :
       (Len(v) > 0 /\ v[1].t = "BulkString" /\ IsSome(v[1].b)
          /\ ValidUtf8(Unwrap(v[1].b)))
         => \E k \in Keys : <<k>> = Unwrap(v[1].b)}

\* `(RespValue::BulkString(Some(_)), RespValue::BulkString(Some(_)))`.
BothBulk(key, value) ==
    /\ key.t = "BulkString" /\ value.t = "BulkString"
    /\ IsSome(key.b) /\ IsSome(value.b)

\* A SetCommand::try_from that never looks at string_max_length.
SetTryFromAnyLength(values) ==
    IF Len(values) # 2 THEN Err("InvalidArgumentNumber")
    ELSE IF ~BothBulk(values[1], values[2]) THEN Err("InvalidCommandFormat")
    ELSE LET k == FromUtf8(Unwrap(values[1].b))
         IN  IF k.ok THEN Ok([key |-> k.v, value |-> Unwrap(values[2].b)])
                     ELSE Err("FromUtf8Error")

\* SetCommand::try_from.
SetTryFrom(values) ==
    IF Len(values) # 2 THEN Err("InvalidArgumentNumber")
    ELSE IF ~BothBulk(values[1], values[2]) THEN Err("InvalidCommandFormat")
    ELSE IF Len(Unwrap(values[2].b)) > config.string_max_length
           THEN Err("SuperHugeString")
    ELSE LET k == FromUtf8(Unwrap(values[1].b))
         IN  IF k.ok THEN Ok([key |-> k.v, value |-> Unwrap(values[2].b)])
                     ELSE Err("FromUtf8Error")

\* GetSetCommand::try_from: the same checks, with InvalidArgumentFormat for
\* the shape.
GetSetTryFrom(values) ==
    IF Len(values) # 2 THEN Err("InvalidArgumentNumber")
    ELSE IF ~BothBulk(values[1], values[2]) THEN Err("InvalidArgumentFormat")
    ELSE IF Len(Unwrap(values[2].b)) > config.string_max_length
           THEN Err("SuperHugeString")
    ELSE LET k == FromUtf8(Unwrap(values[1].b))
         IN  IF k.ok THEN Ok([key |-> k.v, value |-> Unwrap(values[2].b)])
                     ELSE Err("FromUtf8Error")

\* set_command / getset_command: `let cmd = args.try_into()?;` returns the
\* error at once; otherwise `cmd.execute(ctx)` starts with db.write().
HandlerCall(p) ==
    /\ procs[p].pc = "idle"
    /\ \E name \in {"SET", "GETSET"}, values \in ArgVecs :
         LET r == IF name = "SET" THEN SetTryFrom(values) ELSE GetSetTryFrom(values)
         IN  IF r.ok
               THEN Upd(p, [Idle EXCEPT !.pc = "lock", !.cmd = name,
                                        !.op = IF name = "SET" THEN "set" ELSE "get",
                                        !.key = StringOf(r.v.key),
                                        !.val = NewString(r.v.value),
                                        !.arg = r.v.value, !.args = values])
               ELSE Upd(p, [Idle EXCEPT !.pc = "replied", !.cmd = name,
                                        !.args = values, !.reply = Some(r)])
    /\ UNCHANGED <<data, expires, now, shardOf, guards, lockW, lockR, parserVars, wireVars, regVars, connVars, objVars, cfgVars>>

\* GetSetCommand::execute between its two calls: db.get has returned, and
\* db.set(self.key, RedisObject::new_string(self.value), None) is next.
GetSetStore(p) ==
    /\ procs[p].pc = "ret"
    /\ procs[p].cmd = "GETSET" /\ procs[p].op = "get"
    /\ Upd(p, [procs[p] EXCEPT !.pc = "data_insert", !.op = "set",
                               !.old = procs[p].res])
    /\ UNCHANGED <<data, expires, now, shardOf, guards, lockW, lockR, parserVars, wireVars, regVars, connVars, objVars, cfgVars>>

\* One connection calling the SET and GETSET handlers with argument vectors,
\* on a store that also receives entries with a ttl.
RequestNext ==
    \/ Tick
    \/ ApiSetTtl(SeqProc)
    \/ SetNow(SeqProc)
    \/ ExpiresInsert(SeqProc)
    \/ Return(SeqProc)
    \/ HandlerCall(SeqProc)
    \/ LockWrite(SeqProc)
    \/ ExpiresGet(SeqProc)
    \/ CheckExpired(SeqProc)
    \/ DataRemove(SeqProc)
    \/ DataGet(SeqProc)
    \/ GetSetStore(SeqProc)
    \/ DataInsert(SeqProc)
    \/ ExpiresRemove(SeqProc)
    \/ CmdReply(SeqProc)
    \/ CmdEnd(SeqProc)

HandlerInit ==
    /\ DbInit /\ ParserOff /\ WireOff /\ RegOff /\ ConnOff /\ ObjOff
    /\ config \in Configs

RequestSpec == HandlerInit /\ [][RequestNext]_vars

(***************************************************************************)
(* Claim about requests that fail validation.                              *)
(***************************************************************************)
\* The failures the claim lists, read off the argument vector: a wrong
\* argument count, an argument that is not a bulk string, a key that is not
\* UTF-8, a value longer than string_max_length.
IsBulkArg(e) == e.t = "BulkString" /\ IsSome(e.b)

Rejectable(values) ==
    \/ Len(values) # 2
    \/ \E i \in 1..Len(values) : ~IsBulkArg(values[i])
    \/ ~ValidUtf8(Unwrap(values[1].b))
    \/ Len(Unwrap(values[2].b)) > config.string_max_length

CommandErrors == {"InvalidArgumentNumber", "InvalidCommandFormat",
                  "InvalidArgumentFormat", "SuperHugeString", "FromUtf8Error"}

\* C31 (RequestSpec): a SET or GETSET request with a wrong argument count, a
\* non-bulk argument, a non-UTF-8 key or a value longer than
\* string_max_length is answered with an error in the step that receives
\* it; that step takes no lock and leaves the data map, the expiration map,
\* the registry and the registration queue as they were.
C31_RejectedRequestChangesNothing ==
    [][\A p \in Procs :
         (procs[p].pc = "idle" /\ procs'[p].cmd \in {"SET", "GETSET"}
            /\ Rejectable(procs'[p].args)) =>
           /\ procs'[p].pc = "replied"
           /\ \E e \in CommandErrors : procs'[p].reply = Some(Err(e))
           /\ data' = data /\ expires' = expires
           /\ registry' = registry /\ pending' = pending
           /\ lockW' = lockW /\ guards' = guards
      ]_vars

\* A SET whose value exceeds the configured limit was refused while the
\* store held a key with an expiration record.
C31_Witness ==
    LET r == procs[SeqProc] IN
      /\ r.cmd = "SET" /\ r.pc = "replied"
      /\ r.reply = Some(Err("SuperHugeString"))
      /\ Len(r.args) = 2
      /\ data # <<>> /\ expires # <<>>

(***************************************************************************)
(* Database::get against Database::get_with, one caller at a time.         *)
(***************************************************************************)
\* A call of get or get_with whose caller remembers the two maps as they
\* were when the call began (a history field, read by no action).
GetCall(p) ==
    /\ procs[p].pc = "idle"
    /\ \E k \in Keys, o \in {"get", "get_with"} :
         Upd(p, [Idle EXCEPT !.pc = "exp_get", !.op = o, !.key = k,
                             !.seen = Some([data |-> data, expires |-> expires])])
    /\ UNCHANGED <<data, expires, now, shardOf, guards, lockW, lockR, parserVars, wireVars, regVars, connVars, objVars, cfgVars>>

\* One caller of the Database: sets, and reads that remember where they began.
ReadNext == Tick \/ Step(SeqProc) \/ GetCall(SeqProc)

ReadSpec == Init /\ [][ReadNext]_vars

\* What the call that began in maps s, on key k, has made of the data map by
\* the time it is at position pc: nothing before the eviction, k removed
\* after `self.data.remove(key)`.
DataAt(s, k, pc) ==
    IF pc \in {"exp_remove", "ret_none"} THEN MapRemove(s.data, k) ELSE s.data

\* C32 (ReadSpec): at every position of a call, get_with(k, f) has made of
\* the two maps what get(k) has made of them at that position (the same
\* function of the maps the call began in), and when it returns it returns
\* f of the object that get(k) returns from those maps, absence for absence.
C32_GetWithIsGetThenF ==
    \A p \in Procs :
      LET r == procs[p] IN
        (IsGet(r) /\ IsSome(r.seen)) =>
          LET s == Unwrap(r.seen)
              got == IF r.key \in DOMAIN s.data THEN Some(s.data[r.key]) ELSE None
          IN  /\ data = DataAt(s, r.key, r.pc)
              /\ expires = IF r.pc = "ret_none" THEN MapRemove(s.expires, r.key)
                                                ELSE s.expires
              /\ r.pc = "ret" =>
                   r.res = IF r.op = "get" THEN got
                           ELSE IF IsSome(got) THEN Some(Project(Unwrap(got)))
                           ELSE None
              /\ r.pc = "ret_none" => r.res = None

\* get_with has returned f of the value under a key that has an expiration
\* record not yet passed.
C32_Witness ==
    LET r == procs[SeqProc] IN
      /\ r.op = "get_with" /\ r.pc = "ret" /\ IsSome(r.seen)
      /\ r.key \in DOMAIN expires
      /\ r.res = Some(Project(data[r.key]))

\* get_with has evicted the data record of a key whose expiration has passed,
\* as get does.
C32_WitnessEvict ==
    LET r == procs[SeqProc] IN
      /\ r.op = "get_with" /\ r.pc = "exp_remove" /\ IsSome(r.seen)
      /\ r.key \in DOMAIN Unwrap(r.seen).data

(***************************************************************************)
(* Claims about the argument count of a derived command.                   *)
(***************************************************************************)
\* The arguments of the request: its elements after the command name.
ArgCount == Len(Unwrap(request.a)) - 1

\* C33 (as claimed; ParserSpec): a derived command tried on a request with
\* more arguments than the command has fields fails; it yields no command
\* to execute.
C33_TooManyArgsRejected ==
    (Tried /\ ArgCount > Len(Shapes[Unwrap(reply).shape].fields))
      => ~Unwrap(reply).res.ok

(***************************************************************************)
(* Claims about the Database under one and under several callers.          *)
(***************************************************************************)
\* C34 (as claimed; SeqSpec): a call of get or get_with that is about to
\* remove the expiration record of its key holds no Ref into the expiration
\* map: the removal never waits for a lock of the call itself.
C34_NoSelfDeadlock ==
    \A p \in Procs :
      (IsGet(procs[p]) /\ procs[p].pc = "exp_remove") => p \notin guards

\* A call of set that has done all its writes and not yet returned.
SetDone(r) == r.op = "set" /\ r.pc = "ret"

\* C35 (as claimed; Spec): when set(k, v1, Some(ttl)) and set(k, v2, None)
\* have both done their writes while the other was still in progress or not
\* yet begun, the maps are those of one of the two serial orders: k holds v1
\* and has an expiration record, or k holds v2 and has none.
C35_SameKeySetsSerialized ==
    \A p, q \in Procs :
      LET a == procs[p]
          b == procs[q]
      IN  (/\ p # q /\ SetDone(a) /\ SetDone(b) /\ a.key = b.key
           /\ IsSome(a.ttl) /\ ~IsSome(b.ttl)) =>
            \/ (MapGet(data, a.key) = Some(a.val) /\ a.key \in DOMAIN expires)
            \/ (MapGet(data, a.key) = Some(b.val) /\ a.key \notin DOMAIN expires)

\* No call of the Database is in progress.
Quiescent == \A p \in Procs : procs[p].pc = "idle"

\* C36 (Spec): whenever no call is in progress, every key with an
\* expiration record has a data record.
C36_ExpiresWithinData ==
    Quiescent => DOMAIN expires \subseteq DOMAIN data

\* No call is in progress, both keys have an expiration record, and that of
\* one of them has passed.
C36_Witness ==
    /\ Quiescent
    /\ DOMAIN expires = Keys
    /\ \E k \in Keys : Expired(now, expires[k])

\* The records of key k differ between the two states of a step.
Touched(k) ==
    \/ MapGet(data, k) # MapGet(data', k)
    \/ MapGet(expires, k) # MapGet(expires', k)

\* C37 (Spec): a step changes the records of a key only as a step of a call
\* of get, get_with or set on that key; and a step of get or get_with
\* changes a map only when the key has an expiration record that has passed.
\* (So the passing of time changes no record: an expired key stays in both
\* maps until a call on it.)
C37_OnlyOwnKeyOnlyWhenExpired ==
    [][/\ \A k \in Keys :
            Touched(k) => \E p \in Procs : /\ procs'[p] # procs[p]
                                           /\ procs[p].key = k
                                           /\ procs[p].op \in {"get", "get_with", "set"}
       /\ \A p \in Procs :
            (IsGet(procs[p]) /\ procs'[p] # procs[p]
               /\ (data' # data \/ expires' # expires)) =>
              /\ procs[p].key \in DOMAIN expires
              /\ now > expires[procs[p].key]
      ]_vars

\* A get on a key whose expiration has not passed has returned its value,
\* while the other key, whose expiration has passed, is still in both maps.
C37_Witness ==
    \E p \in Procs, k \in Keys :
      LET r == procs[p] IN
        /\ r.op = "get" /\ r.pc = "ret" /\ r.key # k
        /\ r.key \in DOMAIN expires /\ ~(now > expires[r.key])
        /\ r.res = MapGet(data, r.key) /\ IsSome(r.res)
        /\ k \in DOMAIN data /\ k \in DOMAIN expires /\ now > expires[k]

(***************************************************************************)
(* Claim about the parser's cursor.                                        *)
(***************************************************************************)
\* C38 (ParserSpec): in every call of next() the elements stay as they are
\* and the cursor stays within 0..=their number; on an exhausted parser the
\* call returns the count error and leaves the cursor where it was;
\* otherwise the cursor advances by exactly one, whether or not the
\* conversion of the consumed element succeeds; and has_next() is true
\* exactly when the cursor is below the number of elements.
C38_CursorForwardWithinBounds ==
    [][(/\ IsSome(parser) /\ Unwrap(parser).ok /\ IsSome(parser')
        /\ IsSome(reply') /\ Unwrap(reply').op = "next") =>
         LET ps == Unwrap(parser).v
             after == Unwrap(parser').v
             n == Len(ps.parts)
         IN  /\ after.parts = ps.parts
             /\ ps.cursor \in 0..n /\ after.cursor \in 0..n
             /\ HasNext(ps) <=> ps.cursor < n
             /\ IF ps.cursor = n
                  THEN /\ after.cursor = ps.cursor
                       /\ Unwrap(reply').res = Err("InvalidArgumentNumber")
                  ELSE after.cursor = ps.cursor + 1
      ]_vars

\* A next() whose conversion failed has moved the cursor past the element
\* it consumed, and the parser is now exhausted.
C38_Witness ==
    /\ IsSome(parser) /\ Unwrap(parser).ok
    /\ IsSome(reply) /\ Unwrap(reply).op = "next"
    /\ ~Unwrap(reply).res.ok
    /\ Unwrap(reply).res.e # "InvalidArgumentNumber"
    /\ Unwrap(parser).v.cursor = Unwrap(reply).at + 1
    /\ ~HasNext(Unwrap(parser).v)

(***************************************************************************)
(* Claim about flag fields.                                                *)
(***************************************************************************)
\* The positions of the fields of one kind in a command struct.
FieldsOfKind(shape, kind) ==
    {i \in 1..Len(shape.fields) : Kind(shape.fields[i]) = kind}

\* The request supplies exactly the positional arguments of the struct, each
\* one convertible to the type of its field, and nothing else.
SuppliesPositionalsOnly(shape) ==
    LET pos == FieldsOfKind(shape, "pos")
        args == Unwrap(request.a)
    IN  /\ ArgCount = Cardinality(pos)
        /\ \A i \in pos :
             LET nth == Cardinality({j \in pos : j <= i})
             IN  ConvertTo(shape.fields[i].ty, args[nth + 1]).ok

\* C39 (as claimed; ParserSpec): for a derived command with positional and
\* flag fields, the flag fields do not count as required arguments, and a
\* request that supplies every positional argument and no flag token is
\* converted successfully with every flag false.
C39_FlagsOptional ==
    Tried =>
      LET shape == Shapes[Unwrap(reply).shape]
          flags == FieldsOfKind(shape, "flag")
      IN  (shape.kind = "named" /\ flags # {} /\ SuppliesPositionalsOnly(shape)) =>
            /\ RequiredArgsCount(shape) = Cardinality(FieldsOfKind(shape, "pos"))
            /\ Unwrap(reply).res.ok
            /\ \A i \in flags : Unwrap(reply).res.v[i] = FALSE

=============================================================================
